---- MODULE Spec2Model ----
(***************************************************************************)
(* Fleet manager of the camera controller (CameraManager, CameraClient and *)
(* the command layer that wraps the manager in a reader/writer lock).      *)
(*                                                                         *)
(* The state is the manager's fields, the clients it created, the          *)
(* reconnection tasks those clients spawned, the cameras.json file, and    *)
(* the position of every command that is suspended at an await point.      *)
(***************************************************************************)
EXTENDS Integers, Sequences, FiniteSets, TLC

VARIABLES
    cameras,                \* CameraManager.cameras: id -> Camera {info, client}
    persisted_settings,     \* CameraManager.persisted_settings: id -> (stream, camera)
    persistence_file_path,  \* CameraManager.persistence_file_path is Some
    permits,                \* permits left in CameraManager.operation_semaphore
    disk,                   \* the cameras.json file
    clients,                \* every CameraClient stored in the registry so far
    tasks,                  \* every reconnection task spawned by connect_websocket
    mgr_op,                 \* the command that holds the manager's write lock
    batches,                \* the commands in flight that hold a read lock
    profiles_file,          \* the profiles.json file
    last                    \* the step just taken and what it returned to its caller

vars == <<cameras, persisted_settings, persistence_file_path, permits, disk,
          clients, tasks, mgr_op, batches, profiles_file, last>>

----------------------------------------------------------------------------
(* Bounds of the model *)

\* CameraClients ever stored in the registry
MaxClients == 2
\* identifiers in one batch command
MaxIds == 2
\* consecutive failures a reconnection task is followed through
MaxAttempts == 1
\* identifiers in one batch command of the saturation specification
LoadIds == 11
\* connect_websocket calls on the client that is driven directly
MaxConnects == 2
\* frames of one telemetry session that are followed before it ends
MaxFrames == 3

(* Program constants *)

MAX_CONCURRENT_OPERATIONS == 10
MAX_RECONNECT_ATTEMPTS == 1000
\* WS_RECONNECT_DELAY and MAX_RECONNECT_DELAY, in seconds
WS_RECONNECT_DELAY == 2
MAX_RECONNECT_DELAY == 30

----------------------------------------------------------------------------
(* Values *)

None == <<>>
Some(x) == <<x>>
IsSome(o) == o # <<>>
Unwrap(o) == o[1]

\* bearer tokens a caller registers a device with
Tokens == {"secret"}
Aliases == {"Front"}

\* CurrentSettings as reported by a device
Current1 == [resolution |-> "1920x1080", fps |-> 30, bitrate |-> 10000000,
             codec |-> "h264", wb_mode |-> "auto"]
Current2 == [resolution |-> "1280x720", fps |-> 60, bitrate |-> 5000000,
             codec |-> "hevc", wb_mode |-> "manual"]

\* StatusResponse bodies a device answers a probe with
Statuses == {[alias |-> "Cam1", ndi_state |-> "idle", current |-> Current1],
             [alias |-> "Cam1", ndi_state |-> "streaming", current |-> Current2]}

\* StreamStartRequest values a caller passes
StreamRequests == {[resolution |-> "1280x720", framerate |-> 60,
                    bitrate |-> 5000000, codec |-> "hevc"]}

\* CameraSettingsRequest values a caller passes
SettingsRequests == {[wb_mode |-> Some("manual"), orientation_lock |-> None,
                      torch_level |-> None]}

\* the step of a task, the environment or a lock holder that returns nothing
Internal == [op |-> "internal"]

----------------------------------------------------------------------------
(* Pure functions *)

\* a bug: the identifier is the host alone
MakeId_host_only(ip, port) == ip

\* format!("{}:{}", ip, port)
MakeId(ip, port) == ip \o ":" \o ToString(port)

\* PersistedCamera::from_camera_info
from_camera_info(info) ==
    LET settings ==
            IF IsSome(info.status)
            THEN LET cur == Unwrap(info.status).current IN
                 <<Some([resolution |-> cur.resolution, framerate |-> cur.fps,
                         bitrate |-> cur.bitrate, codec |-> cur.codec]),
                   Some([wb_mode |-> Some(cur.wb_mode), orientation_lock |-> None,
                         torch_level |-> None])>>
            ELSE <<None, None>>
    IN [id |-> info.id, alias |-> info.alias, ip |-> info.ip, port |-> info.port,
        token |-> info.token, stream_settings |-> settings[1],
        camera_settings |-> settings[2]]

\* a bug: the file is patched, records are added to it and never taken out
save_cameras_to_disk_incremental(cams, path_set, file, io_ok) ==
    IF ~path_set THEN file
    ELSE IF io_ok
         THEN [exists |-> TRUE,
               cameras |-> file.cameras \cup
                           {[id |-> cams[k].info.id, alias |-> cams[k].info.alias,
                             ip |-> cams[k].info.ip, port |-> cams[k].info.port,
                             token |-> cams[k].info.token,
                             stream_settings |-> None, camera_settings |-> None] :
                               k \in DOMAIN cams}]
         ELSE file

\* save_cameras_to_disk: the file after the call. io_ok is whether serialising
\* and writing the file worked.
save_cameras_to_disk(cams, path_set, file, io_ok) ==
    IF ~path_set THEN file
    ELSE IF io_ok
         THEN [exists |-> TRUE,
               cameras |-> {from_camera_info(cams[k].info) : k \in DOMAIN cams}]
         ELSE file

\* what the caller of save_cameras_to_disk saw
SaveOutcome(path_set, io_ok) ==
    IF ~path_set THEN "no_path" ELSE IF io_ok THEN "written" ELSE "failed"

\* the orders in which the keys of a map can be iterated
Orders(S) ==
    {q \in [1..Cardinality(S) -> S] : \A i, j \in 1..Cardinality(S) : q[i] = q[j] => i = j}

\* HashMap::insert
MapInsert(m, k, v) == [x \in DOMAIN m \cup {k} |-> IF x = k THEN v ELSE m[x]]

\* HashMap::remove
MapRemove(m, k) == [x \in DOMAIN m \ {k} |-> m[x]]

----------------------------------------------------------------------------
(* The manager's lock (AppState.camera_manager) *)

Readers == {b \in DOMAIN batches : batches[b].st # "idle"}

CanWrite == mgr_op.kind = "none" /\ Readers = {}

CanRead == mgr_op.kind = "none"

NoOp == [kind |-> "none"]

----------------------------------------------------------------------------
(* State after construction: CameraManager::new, no file, nothing running *)

\* the batch commands that can be in flight at once
BatchIds == {1, 2}

IdleBatch == [st |-> "idle"]

Init ==
    /\ cameras = <<>>
    /\ persisted_settings = <<>>
    /\ persistence_file_path = FALSE
    /\ permits = MAX_CONCURRENT_OPERATIONS
    /\ disk = [exists |-> FALSE, cameras |-> {}]
    /\ clients = <<>>
    /\ tasks = <<>>
    /\ mgr_op = NoOp
    /\ batches = [b \in BatchIds |-> IdleBatch]
    /\ profiles_file = [exists |-> FALSE, profiles |-> <<>>]
    /\ last = Internal

----------------------------------------------------------------------------
(* Registry: add_camera_manual *)

\* a bug: the entry is built without the status the probe returned
NewCameraInfo_no_status(ip, port, token, status) ==
    [id |-> MakeId(ip, port), alias |-> status.alias, ip |-> ip, port |-> port,
     token |-> token, status |-> None, connection_state |-> "Connecting"]

\* The CameraInfo built from the probed status
NewCameraInfo(ip, port, token, status) ==
    [id |-> MakeId(ip, port), alias |-> status.alias, ip |-> ip, port |-> port,
     token |-> token, status |-> Some(status), connection_state |-> "Connected"]

\* CameraClient::new followed by connect_websocket: the client holds the sender
\* of the stop channel of the task it spawned (task number t).
NewClient(t) ==
    [connected |-> FALSE, ws_stop_tx |-> t, dropped |-> FALSE]

\* the reconnection task as spawned: about to make its first attempt
NewTask(c) ==
    [client |-> c, pc |-> "connect", reconnect_attempts |-> 0, rx |-> 0,
     delay |-> 0, frames |-> <<>>, calls |-> <<>>]

\* A Camera that leaves the map is dropped, and its client with it: the sender
\* of the stop channel goes away without a stop signal being sent.
DropClient(cl, c) ==
    [cl EXCEPT ![c].dropped = TRUE, ![c].ws_stop_tx = 0]

\* self.cameras.insert(id, Camera { info, client })
StoreCamera(cams, id, info, c) ==
    MapInsert(cams, id, [info |-> info, client |-> c])

\* The command takes the write lock, builds the client and sends the status
\* probe (client.get_status()); it is suspended until the probe is answered.
add_camera_manual_begin(ip, port, token) ==
    /\ CanWrite
    /\ mgr_op' = [kind |-> "add", ip |-> ip, port |-> port, token |-> token]
    /\ last' = Internal
    /\ UNCHANGED <<cameras, persisted_settings, persistence_file_path, permits,
                   disk, clients, tasks, batches, profiles_file>>

\* a bug: the entry is stored before the probe is checked, and stays
add_camera_manual_fail_keeps_entry ==
    /\ mgr_op.kind = "add"
    /\ mgr_op' = NoOp
    /\ cameras' = StoreCamera(cameras, MakeId(mgr_op.ip, mgr_op.port),
                              [id |-> MakeId(mgr_op.ip, mgr_op.port), alias |-> "",
                               ip |-> mgr_op.ip, port |-> mgr_op.port,
                               token |-> mgr_op.token, status |-> None,
                               connection_state |-> "Error"],
                              Len(clients) + 1)
    /\ clients' = Append(clients, NewClient(0))
    /\ last' = [op |-> "add_camera_manual",
                id |-> MakeId(mgr_op.ip, mgr_op.port), ok |-> FALSE,
                error |-> "Failed to connect to camera", save |-> "not_called"]
    /\ UNCHANGED <<persisted_settings, persistence_file_path, permits, disk,
                   tasks, batches, profiles_file>>

\* The probe failed: `?` returns the error before anything is stored.
add_camera_manual_fail ==
    /\ mgr_op.kind = "add"
    /\ mgr_op' = NoOp
    /\ last' = [op |-> "add_camera_manual",
                id |-> MakeId(mgr_op.ip, mgr_op.port), ok |-> FALSE,
                error |-> "Failed to connect to camera", save |-> "not_called"]
    /\ UNCHANGED <<cameras, persisted_settings, persistence_file_path, permits,
                   disk, clients, tasks, batches, profiles_file>>

\* The probe answered with a status: start the telemetry task, store the
\* camera under its id (replacing an entry with that id), save, return the id.
add_camera_manual_ok(status, io_ok) ==
    /\ mgr_op.kind = "add"
    /\ Len(clients) < MaxClients
    /\ LET ip == mgr_op.ip
           port == mgr_op.port
           token == mgr_op.token
           id == MakeId(ip, port)
           c == Len(clients) + 1
           t == Len(tasks) + 1
           kept == IF id \in DOMAIN cameras
                   THEN DropClient(clients, cameras[id].client)
                   ELSE clients
           cams == StoreCamera(cameras, id, NewCameraInfo(ip, port, token, status), c)
       IN /\ clients' = Append(kept, NewClient(t))
          /\ tasks' = Append(tasks, NewTask(c))
          /\ cameras' = cams
          /\ disk' = save_cameras_to_disk(cams, persistence_file_path, disk, io_ok)
          /\ last' = [op |-> "add_camera_manual", id |-> id, ok |-> TRUE,
                      save |-> SaveOutcome(persistence_file_path, io_ok)]
    /\ mgr_op' = NoOp
    /\ UNCHANGED <<persisted_settings, persistence_file_path, permits, batches,
                   profiles_file>>

----------------------------------------------------------------------------
(* Registry: remove_camera *)

NotFound(id) == "Camera not found: " \o id

\* a bug: removing an absent identifier is taken for a success and saved
remove_camera_not_found_saves(id) ==
    /\ CanWrite
    /\ id \notin DOMAIN cameras
    /\ disk' = save_cameras_to_disk(cameras, persistence_file_path, disk, TRUE)
    /\ last' = [op |-> "remove_camera", id |-> id, ok |-> TRUE, client |-> 0,
                signalled |-> FALSE,
                save |-> SaveOutcome(persistence_file_path, TRUE)]
    /\ UNCHANGED <<cameras, persisted_settings, persistence_file_path, permits,
                   clients, tasks, mgr_op, batches, profiles_file>>

\* cameras.remove(camera_id) found nothing: bail.
remove_camera_not_found(id) ==
    /\ CanWrite
    /\ id \notin DOMAIN cameras
    /\ last' = [op |-> "remove_camera", id |-> id, ok |-> FALSE,
                error |-> NotFound(id), save |-> "not_called"]
    /\ UNCHANGED <<cameras, persisted_settings, persistence_file_path, permits,
                   disk, clients, tasks, mgr_op, batches, profiles_file>>

\* disconnect_websocket, first half: *self.connected.write().await = false
ClearConnected(cl, c) == [cl EXCEPT ![c].connected = FALSE]

\* a bug: the sender is dropped without a stop signal being sent
TakeWithoutSignal(cl, tk, c) ==
    <<[cl EXCEPT ![c].ws_stop_tx = 0], tk>>

\* a bug: the signal is sent through a borrowed sender, which stays in place
SignalWithoutTake(cl, tk, c) ==
    LET t == cl[c].ws_stop_tx IN
    IF t = 0 THEN <<cl, tk>>
    ELSE <<cl, IF tk[t].pc = "stopped" THEN tk ELSE [tk EXCEPT ![t].rx = @ + 1]>>

\* disconnect_websocket, second half: take the sender and send the stop signal.
\* The send is an error, and ignored, when the task has ended (receiver dropped).
TakeAndSignal(cl, tk, c) ==
    LET t == cl[c].ws_stop_tx IN
    IF t = 0 THEN <<cl, tk>>
    ELSE <<[cl EXCEPT ![c].ws_stop_tx = 0],
           IF tk[t].pc = "stopped" THEN tk ELSE [tk EXCEPT ![t].rx = @ + 1]>>

\* cameras.remove(camera_id) took the entry out; disconnect_websocket has
\* cleared the flag and is about to signal the task.
remove_camera_begin(id) ==
    /\ CanWrite
    /\ id \in DOMAIN cameras
    /\ cameras' = MapRemove(cameras, id)
    /\ clients' = ClearConnected(clients, cameras[id].client)
    /\ mgr_op' = [kind |-> "remove", id |-> id, client |-> cameras[id].client]
    /\ last' = [op |-> "remove_camera.disconnect", id |-> id,
                client |-> cameras[id].client]
    /\ UNCHANGED <<persisted_settings, persistence_file_path, permits, disk,
                   tasks, batches, profiles_file>>

\* the stop signal is sent, the registry saved, the removed Camera dropped
remove_camera_finish(io_ok) ==
    /\ mgr_op.kind = "remove"
    /\ LET c == mgr_op.client
           sig == TakeAndSignal(clients, tasks, c)
       IN /\ clients' = DropClient(sig[1], c)
          /\ tasks' = sig[2]
          /\ last' = [op |-> "remove_camera", id |-> mgr_op.id, ok |-> TRUE,
                      client |-> c, signalled |-> clients[c].ws_stop_tx # 0,
                      save |-> SaveOutcome(persistence_file_path, io_ok)]
    /\ disk' = save_cameras_to_disk(cameras, persistence_file_path, disk, io_ok)
    /\ mgr_op' = NoOp
    /\ UNCHANGED <<cameras, persisted_settings, persistence_file_path, permits,
                   batches, profiles_file>>

----------------------------------------------------------------------------
(* Registry: delete_cameras_data *)

\* self.cameras.clear(): every Camera of the map is dropped, and its client
\* with it
DropAll(cl, cams) ==
    [c \in DOMAIN cl |->
        IF \E id \in DOMAIN cams : cams[id].client = c
        THEN [cl[c] EXCEPT !.dropped = TRUE, !.ws_stop_tx = 0]
        ELSE cl[c]]

\* delete_cameras_data: without a path it bails; the file, when there is
\* one, is removed, and a failure of that is returned before anything is
\* cleared; then the map is cleared
delete_cameras_data(io_ok) ==
    /\ CanWrite
    /\ IF ~persistence_file_path
       THEN /\ last' = [op |-> "delete_cameras_data", ok |-> FALSE,
                        error |-> "Cameras persistence path not set"]
            /\ UNCHANGED <<cameras, disk, clients>>
       ELSE IF disk.exists /\ ~io_ok
       THEN /\ last' = [op |-> "delete_cameras_data", ok |-> FALSE,
                        error |-> "Failed to delete cameras file"]
            /\ UNCHANGED <<cameras, disk, clients>>
       ELSE /\ disk' = [exists |-> FALSE, cameras |-> {}]
            /\ cameras' = <<>>
            /\ clients' = DropAll(clients, cameras)
            /\ last' = [op |-> "delete_cameras_data", ok |-> TRUE]
    /\ UNCHANGED <<persisted_settings, persistence_file_path, permits, tasks,
                   mgr_op, batches, profiles_file>>

----------------------------------------------------------------------------
(* Registry: update_camera_alias *)

\* a bug: the rename rewrites the identifier with the alias
SetAlias_and_id(cams, id, alias) ==
    [cams EXCEPT ![id].info.alias = alias, ![id].info.id = alias]

\* camera.info.alias = alias
SetAlias(cams, id, alias) == [cams EXCEPT ![id].info.alias = alias]

update_camera_alias(id, alias, io_ok) ==
    /\ CanWrite
    /\ IF id \in DOMAIN cameras
       THEN LET cams == SetAlias(cameras, id, alias) IN
            /\ cameras' = cams
            /\ disk' = save_cameras_to_disk(cams, persistence_file_path, disk, io_ok)
            /\ last' = [op |-> "update_camera_alias", id |-> id, alias |-> alias,
                        ok |-> TRUE,
                        save |-> SaveOutcome(persistence_file_path, io_ok)]
       ELSE /\ last' = [op |-> "update_camera_alias", id |-> id, alias |-> alias,
                        ok |-> FALSE, error |-> NotFound(id),
                        save |-> "not_called"]
            /\ UNCHANGED <<cameras, disk>>
    /\ UNCHANGED <<persisted_settings, persistence_file_path, permits, clients,
                   tasks, mgr_op, batches, profiles_file>>

----------------------------------------------------------------------------
(* Registry: get_all_cameras *)

\* a bug: a failed probe clears the status of the returned entry
Probed_drops_status(info, probe) ==
    IF IsSome(probe)
    THEN [info EXCEPT !.status = probe, !.connection_state = "Connected"]
    ELSE [info EXCEPT !.status = None, !.connection_state = "Error"]

\* the match on get_status() applied to the clone of the stored info:
\* probe is Some(status) for Ok(status) and None for Err(e)
Probed(info, probe) ==
    IF IsSome(probe)
    THEN [info EXCEPT !.status = probe, !.connection_state = "Connected"]
    ELSE [info EXCEPT !.connection_state = "Error"]

\* what the probes of one get_all_cameras call can yield, per registered id
ProbeOutcomes(cams) ==
    [DOMAIN cams -> {None} \cup {Some(st) : st \in Statuses}]

\* get_all_cameras: every camera of the map is probed in iteration order and
\* the probed clone of its info is pushed; the map itself is only read
get_all_cameras(ids, probes) ==
    /\ CanRead
    /\ ids \in Orders(DOMAIN cameras)
    /\ probes \in ProbeOutcomes(cameras)
    /\ last' = [op |-> "get_all_cameras", ok |-> TRUE, probes |-> probes,
                result |-> [i \in 1..Len(ids) |->
                               Probed(cameras[ids[i]].info, probes[ids[i]])]]
    /\ UNCHANGED <<cameras, persisted_settings, persistence_file_path, permits,
                   disk, clients, tasks, mgr_op, batches, profiles_file>>

----------------------------------------------------------------------------
(* Startup: set_persistence_path, run once by the task main() spawns *)

\* No cameras.json yet: load_cameras_from_disk starts fresh.
set_persistence_path ==
    /\ CanWrite
    /\ ~persistence_file_path
    /\ ~disk.exists
    /\ persistence_file_path' = TRUE
    /\ last' = [op |-> "set_persistence_path", ok |-> TRUE, load |-> "no_file"]
    /\ UNCHANGED <<cameras, persisted_settings, permits, disk, clients, tasks,
                   mgr_op, batches, profiles_file>>

\* cameras.json is there but cannot be read or deserialised: the path stays
\* set and load_cameras_from_disk returns the error, which main() logs
set_persistence_path_unreadable ==
    /\ CanWrite
    /\ ~persistence_file_path
    /\ disk.exists
    /\ persistence_file_path' = TRUE
    /\ last' = [op |-> "set_persistence_path", ok |-> FALSE,
                error |-> "Failed to read cameras file", load |-> "failed"]
    /\ UNCHANGED <<cameras, persisted_settings, permits, disk, clients, tasks,
                   mgr_op, batches, profiles_file>>

\* what set_persistence_path returns when the loop over the file has ended:
\* Ok(()); with it the identifiers registered before the call, those of the
\* file, and those whose probe failed
Loaded(before, persisted, skipped) ==
    [op |-> "set_persistence_path", ok |-> TRUE, load |-> "loaded",
     before |-> before, persisted |-> persisted, skipped |-> skipped]

\* cameras.json is read: the loop over its records starts with the probe of
\* the first one, in the order of the file (todo); an empty list is done
set_persistence_path_load(todo) ==
    /\ CanWrite
    /\ ~persistence_file_path
    /\ disk.exists
    /\ todo \in Orders(disk.cameras)
    /\ persistence_file_path' = TRUE
    /\ IF todo = <<>>
       THEN /\ mgr_op' = NoOp
            /\ last' = Loaded(DOMAIN cameras, {}, {})
       ELSE /\ mgr_op' = [kind |-> "load", todo |-> todo,
                          before |-> DOMAIN cameras,
                          persisted |-> {r.id : r \in disk.cameras},
                          skipped |-> {}]
            /\ last' = Internal
    /\ UNCHANGED <<cameras, persisted_settings, permits, disk, clients, tasks,
                   batches, profiles_file>>

\* a bug: a device that cannot be reached ends the load with its error
LoadAdvance_aborts(skipped) ==
    IF skipped # mgr_op.skipped
    THEN /\ mgr_op' = NoOp
         /\ last' = [op |-> "set_persistence_path", ok |-> FALSE,
                     error |-> "Failed to connect to camera", load |-> "failed"]
    ELSE IF Len(mgr_op.todo) = 1
         THEN /\ mgr_op' = NoOp
              /\ last' = Loaded(mgr_op.before, mgr_op.persisted, skipped)
         ELSE /\ mgr_op' = [mgr_op EXCEPT !.todo = Tail(@), !.skipped = skipped]
              /\ last' = Internal

\* the loop goes to the next record, or has ended and the call returns Ok
LoadAdvance(skipped) ==
    IF Len(mgr_op.todo) = 1
    THEN /\ mgr_op' = NoOp
         /\ last' = Loaded(mgr_op.before, mgr_op.persisted, skipped)
    ELSE /\ mgr_op' = [mgr_op EXCEPT !.todo = Tail(@), !.skipped = skipped]
         /\ last' = Internal

\* add_camera_manual returned Err for the record: a warning, the next record
load_camera_fail ==
    /\ mgr_op.kind = "load"
    /\ LoadAdvance(mgr_op.skipped \cup {Head(mgr_op.todo).id})
    /\ UNCHANGED <<cameras, persisted_settings, persistence_file_path, permits,
                   disk, clients, tasks, batches, profiles_file>>

\* add_camera_manual returned Ok(id) for the record: the camera is stored and
\* the registry saved as by any add, then the settings of the record, when it
\* has some, are put in persisted_settings under the record's id
load_camera_ok(status, io_ok) ==
    /\ mgr_op.kind = "load"
    /\ Len(clients) < MaxClients
    /\ LET persisted == Head(mgr_op.todo)
           id == MakeId(persisted.ip, persisted.port)
           c == Len(clients) + 1
           t == Len(tasks) + 1
           kept == IF id \in DOMAIN cameras
                   THEN DropClient(clients, cameras[id].client)
                   ELSE clients
           cams == StoreCamera(cameras, id,
                               NewCameraInfo(persisted.ip, persisted.port,
                                             persisted.token, status), c)
       IN /\ clients' = Append(kept, NewClient(t))
          /\ tasks' = Append(tasks, NewTask(c))
          /\ cameras' = cams
          /\ disk' = save_cameras_to_disk(cams, persistence_file_path, disk, io_ok)
          /\ persisted_settings' =
                IF IsSome(persisted.stream_settings) \/ IsSome(persisted.camera_settings)
                THEN MapInsert(persisted_settings, persisted.id,
                               <<persisted.stream_settings, persisted.camera_settings>>)
                ELSE persisted_settings
    /\ LoadAdvance(mgr_op.skipped)
    /\ UNCHANGED <<persistence_file_path, permits, batches, profiles_file>>

\* the application is closed and started again: main() builds a new manager;
\* the files stay
restart ==
    /\ CanWrite
    /\ cameras' = <<>>
    /\ persisted_settings' = <<>>
    /\ persistence_file_path' = FALSE
    /\ permits' = MAX_CONCURRENT_OPERATIONS
    /\ clients' = <<>>
    /\ tasks' = <<>>
    /\ last' = [op |-> "restart"]
    /\ UNCHANGED <<disk, mgr_op, batches, profiles_file>>

----------------------------------------------------------------------------
(* Profiles: save_profile and delete_profile. Both run under the manager's *)
(* write lock from call to return. profiles_file_path is set together with *)
(* persistence_file_path by set_persistence_path, to profiles.json in the  *)
(* same directory.                                                         *)

profiles_file_path == persistence_file_path

\* names and settings a caller saves profiles with
ProfileNames == {"Day", "Night", "Studio"}
ProfileSettings ==
    SettingsRequests \cup {[wb_mode |-> Some("auto"),
                            orientation_lock |-> Some("landscape"),
                            torch_level |-> None]}

\* load_profiles_from_disk: Some(profiles) for Ok, None for Err. read_ok is
\* whether reading and deserialising an existing file worked.
load_profiles_from_disk(path_set, file, read_ok) ==
    IF ~path_set \/ ~file.exists THEN Some(<<>>)
    ELSE IF read_ok THEN Some(file.profiles) ELSE None

\* Result::unwrap_or_default on the loaded list
unwrap_or_default(loaded) == IF IsSome(loaded) THEN Unwrap(loaded) ELSE <<>>

\* what the caller of load_profiles_from_disk saw
LoadOutcome(path_set, file, read_ok) ==
    IF ~path_set \/ ~file.exists THEN "no_file"
    ELSE IF read_ok THEN "read" ELSE "failed"

\* profiles.iter_mut().find(|p| p.name == name): the first index, or 0
Find(profiles, name) ==
    IF \E i \in 1..Len(profiles) : profiles[i].name = name
    THEN CHOOSE i \in 1..Len(profiles) :
            /\ profiles[i].name = name
            /\ \A j \in 1..(i - 1) : profiles[j].name # name
    ELSE 0

\* a bug: the profile is appended whether or not its name is taken
Upsert_always_appends(profiles, name, settings) ==
    Append(profiles, [name |-> name, settings |-> settings])

\* existing.settings = settings, or profiles.push(CameraProfile { name, settings })
Upsert(profiles, name, settings) ==
    IF Find(profiles, name) # 0
    THEN [profiles EXCEPT ![Find(profiles, name)].settings = settings]
    ELSE Append(profiles, [name |-> name, settings |-> settings])

\* the profiles.json file after ProfilesPersistence { profiles } is written
WriteProfiles(file, profiles, io_ok) ==
    IF io_ok THEN [exists |-> TRUE, profiles |-> profiles] ELSE file

save_profile(name, settings, read_ok, io_ok) ==
    /\ CanWrite
    /\ IF ~profiles_file_path
       THEN /\ last' = [op |-> "save_profile", name |-> name, ok |-> FALSE,
                        error |-> "Profiles path not set", load |-> "not_called",
                        save |-> "not_called"]
            /\ UNCHANGED profiles_file
       ELSE LET loaded == unwrap_or_default(
                              load_profiles_from_disk(profiles_file_path,
                                                      profiles_file, read_ok))
                found == Find(loaded, name)
            IN /\ profiles_file' =
                      WriteProfiles(profiles_file, Upsert(loaded, name, settings), io_ok)
               /\ last' = [op |-> "save_profile", name |-> name,
                           settings |-> settings, ok |-> io_ok,
                           previous |-> IF found # 0 THEN Some(loaded[found].settings)
                                        ELSE None,
                           load |-> LoadOutcome(profiles_file_path, profiles_file,
                                                read_ok),
                           save |-> IF io_ok THEN "written" ELSE "failed"]
    /\ UNCHANGED <<cameras, persisted_settings, persistence_file_path, permits,
                   disk, clients, tasks, mgr_op, batches>>

\* profiles.retain(|p| p.name != name)
Retain(profiles, name) == SelectSeq(profiles, LAMBDA p : p.name # name)

\* a bug: an absent name is not told from a removed one
NothingRemoved_never(initial_len, profiles) == FALSE

\* profiles.len() == initial_len
NothingRemoved(initial_len, profiles) == Len(profiles) = initial_len

\* "Profile not found: {}"
ProfileNotFound(name) == "Profile not found: " \o name

delete_profile(name, read_ok, io_ok) ==
    /\ CanWrite
    /\ IF ~profiles_file_path
       THEN /\ last' = [op |-> "delete_profile", name |-> name, ok |-> FALSE,
                        error |-> "Profiles path not set", load |-> "not_called",
                        save |-> "not_called"]
            /\ UNCHANGED profiles_file
       ELSE LET loaded == unwrap_or_default(
                              load_profiles_from_disk(profiles_file_path,
                                                      profiles_file, read_ok))
                load == LoadOutcome(profiles_file_path, profiles_file, read_ok)
                kept == Retain(loaded, name)
            IN IF NothingRemoved(Len(loaded), kept)
               THEN /\ last' = [op |-> "delete_profile", name |-> name,
                                ok |-> FALSE, error |-> ProfileNotFound(name),
                                load |-> load, save |-> "not_called"]
                    /\ UNCHANGED profiles_file
               ELSE /\ profiles_file' = WriteProfiles(profiles_file, kept, io_ok)
                    /\ last' = IF io_ok
                               THEN [op |-> "delete_profile", name |-> name,
                                     ok |-> TRUE, load |-> load, save |-> "written"]
                               ELSE [op |-> "delete_profile", name |-> name,
                                     ok |-> FALSE,
                                     error |-> "Failed to write profiles to disk",
                                     load |-> load, save |-> "failed"]
    /\ UNCHANGED <<cameras, persisted_settings, persistence_file_path, permits,
                   disk, clients, tasks, mgr_op, batches>>

----------------------------------------------------------------------------
(* Group operations: execute_group_operation and start_all_cameras.        *)
(* A batch command holds the manager's read lock from its call to its      *)
(* return. Its per-device tokio tasks are jobs: ready (the immediate       *)
(* not-found future), waiting (for a permit), running (permit held,        *)
(* request in flight), done (the task returned its result) or crashed      *)
(* (the task panicked, its JoinHandle yields Err).                         *)

\* the structured error body of a device that refuses a request
ServerError == [code |-> "INVALID_STATE", message |-> "Stream already running"]

\* how the request of one job ends at the device client
Outcomes == {"ok", "server_error", "transport_error"}

\* e.to_string() of the error the client call returned
ErrorText(outcome) ==
    IF outcome = "server_error"
    THEN ServerError.code \o ": " \o ServerError.message
    ELSE "HTTP POST request failed"

\* GroupCommandResult of a job whose operation returned
OperationResult(camera_id, outcome) ==
    [camera_id |-> camera_id, success |-> outcome = "ok",
     error |-> IF outcome = "ok" THEN None ELSE Some(ErrorText(outcome))]

\* GroupCommandResult for an identifier that is not in the map
NotFoundResult(camera_id) ==
    [camera_id |-> camera_id, success |-> FALSE, error |-> Some(NotFound(camera_id))]

\* the task spawned for one identifier of execute_group_operation
SpawnJob(cams, camera_id, request) ==
    [camera_id |-> camera_id, found |-> camera_id \in DOMAIN cams,
     st |-> IF camera_id \in DOMAIN cams THEN "waiting" ELSE "ready",
     request |-> request, outcome |-> "none"]

\* entry(id).and_modify(|(stream, _)| *stream = Some(request))
\*          .or_insert((Some(request), None))
SetStream(ps, id, request) ==
    MapInsert(ps, id, IF id \in DOMAIN ps THEN <<Some(request), ps[id][2]>>
                      ELSE <<Some(request), None>>)

\* entry(id).and_modify(|(_, camera)| *camera = Some(settings))
\*          .or_insert((None, Some(settings)))
SetCamera(ps, id, settings) ==
    MapInsert(ps, id, IF id \in DOMAIN ps THEN <<ps[id][1], Some(settings)>>
                      ELSE <<None, Some(settings)>>)

\* the loops of group_start_stream / group_update_settings that record the
\* request for every identifier of the call before anything is sent
RECURSIVE StoreForAll(_, _, _, _)
StoreForAll(ps, ids, op, request) ==
    IF ids = <<>> \/ op = "group_stop_stream" THEN ps
    ELSE StoreForAll(IF op = "group_start_stream"
                     THEN SetStream(ps, Head(ids), request)
                     ELSE SetCamera(ps, Head(ids), request),
                     Tail(ids), op, request)

\* the jobs of the first occurrence of every identifier
RECURSIVE FirstOccurrences(_, _)
FirstOccurrences(jobs, seen) ==
    IF jobs = <<>> THEN <<>>
    ELSE IF Head(jobs).camera_id \in seen
         THEN FirstOccurrences(Tail(jobs), seen)
         ELSE <<Head(jobs)>>
                  \o FirstOccurrences(Tail(jobs), seen \cup {Head(jobs).camera_id})

\* a bug: one task per distinct identifier
StartedBatch_distinct(op, ids, jobs) ==
    [st |-> "joining", op |-> op, ids |-> ids,
     jobs |-> FirstOccurrences(jobs, {}), joined |-> 0, results |-> <<>>]

\* a batch that has spawned its jobs and awaits them in order
StartedBatch(op, ids, jobs) ==
    [st |-> "joining", op |-> op, ids |-> ids, jobs |-> jobs, joined |-> 0,
     results |-> <<>>]

\* group_start_stream / group_stop_stream / group_update_settings up to the
\* first await of execute_group_operation: every task is spawned
group_begin(b, op, ids, request) ==
    /\ CanRead
    /\ batches[b].st = "idle"
    /\ persisted_settings' = StoreForAll(persisted_settings, ids, op, request)
    /\ batches' = [batches EXCEPT ![b] =
          StartedBatch(op, ids,
                       [i \in 1..Len(ids) |-> SpawnJob(cameras, ids[i], request)])]
    /\ last' = Internal
    /\ UNCHANGED <<cameras, persistence_file_path, permits, disk, clients,
                   tasks, mgr_op, profiles_file>>

\* the fixed default of start_all_cameras
DefaultStream == [resolution |-> "1920x1080", framerate |-> 30,
                  bitrate |-> 10000000, codec |-> "h264"]

\* a bug: the persisted settings are not looked at
StreamFor_always_default(ps, id) == DefaultStream

\* persisted stream settings of a camera, or the default
StreamFor(ps, id) ==
    IF id \in DOMAIN ps /\ IsSome(ps[id][1]) THEN Unwrap(ps[id][1]) ELSE DefaultStream

\* start_all_cameras with an empty registry returns at once
start_all_cameras_empty ==
    /\ CanRead
    /\ DOMAIN cameras = {}
    /\ last' = [op |-> "start_all_cameras", ok |-> TRUE, spawned |-> 0,
                save |-> "not_called"]
    /\ UNCHANGED <<cameras, persisted_settings, persistence_file_path, permits,
                   disk, clients, tasks, mgr_op, batches, profiles_file>>

\* start_all_cameras: one task per key of the map
start_all_cameras_begin(b, ids) ==
    /\ CanRead
    /\ batches[b].st = "idle"
    /\ DOMAIN cameras # {}
    /\ ids \in Orders(DOMAIN cameras)
    /\ batches' = [batches EXCEPT ![b] =
          StartedBatch("start_all_cameras", ids,
                       [i \in 1..Len(ids) |->
                           SpawnJob(cameras, ids[i],
                                    StreamFor(persisted_settings, ids[i]))])]
    /\ last' = Internal
    /\ UNCHANGED <<cameras, persisted_settings, persistence_file_path, permits,
                   disk, clients, tasks, mgr_op, profiles_file>>

\* a bug: the task does not wait for a permit
CanAcquire_unbounded(job, available) == job.st = "waiting"

\* semaphore.acquire().await: a permit can be taken
CanAcquire(job, available) == job.st = "waiting" /\ available > 0

\* the task of a registered camera takes a permit and sends its request
job_acquire(b, i) ==
    /\ batches[b].st = "joining"
    /\ i \in 1..Len(batches[b].jobs)
    /\ CanAcquire(batches[b].jobs[i], permits)
    /\ permits' = permits - 1
    /\ batches' = [batches EXCEPT ![b].jobs[i].st = "running"]
    /\ last' = Internal
    /\ UNCHANGED <<cameras, persisted_settings, persistence_file_path, disk,
                   clients, tasks, mgr_op, profiles_file>>

\* a bug: the permit is not given back when the operation has returned
job_finish_keeps_permit(b, i, outcome) ==
    /\ batches[b].st = "joining"
    /\ i \in 1..Len(batches[b].jobs)
    /\ batches[b].jobs[i].st = "running"
    /\ batches' = [batches EXCEPT ![b].jobs[i].st = "done",
                                  ![b].jobs[i].outcome = outcome]
    /\ last' = Internal
    /\ UNCHANGED <<cameras, persisted_settings, persistence_file_path, permits,
                   disk, clients, tasks, mgr_op, profiles_file>>

\* the operation returned (Ok or Err): the task returns its result and the
\* permit is dropped
job_finish(b, i, outcome) ==
    /\ batches[b].st = "joining"
    /\ i \in 1..Len(batches[b].jobs)
    /\ batches[b].jobs[i].st = "running"
    /\ permits' = permits + 1
    /\ batches' = [batches EXCEPT ![b].jobs[i].st = "done",
                                  ![b].jobs[i].outcome = outcome]
    /\ last' = Internal
    /\ UNCHANGED <<cameras, persisted_settings, persistence_file_path, disk,
                   clients, tasks, mgr_op, profiles_file>>

\* the operation panicked: unwinding drops the permit, the JoinHandle gets Err
job_crash(b, i) ==
    /\ batches[b].st = "joining"
    /\ i \in 1..Len(batches[b].jobs)
    /\ batches[b].jobs[i].st = "running"
    /\ permits' = permits + 1
    /\ batches' = [batches EXCEPT ![b].jobs[i].st = "crashed"]
    /\ last' = Internal
    /\ UNCHANGED <<cameras, persisted_settings, persistence_file_path, disk,
                   clients, tasks, mgr_op, profiles_file>>

\* a bug: the not-found result is produced behind the semaphore
CanRunNotFound_with_permit(job, available) == job.st = "ready" /\ available > 0

\* the task of an unknown identifier can run: it needs nothing
CanRunNotFound(job, available) == job.st = "ready"

\* the task spawned for an unknown identifier returns its result
job_not_found(b, i) ==
    /\ batches[b].st = "joining"
    /\ i \in 1..Len(batches[b].jobs)
    /\ CanRunNotFound(batches[b].jobs[i], permits)
    /\ batches' = [batches EXCEPT ![b].jobs[i].st = "done",
                                  ![b].jobs[i].outcome = "not_found"]
    /\ last' = Internal
    /\ UNCHANGED <<cameras, persisted_settings, persistence_file_path, permits,
                   disk, clients, tasks, mgr_op, profiles_file>>

\* what task.await yields for a finished job
JobResult(job) ==
    IF job.outcome = "not_found" THEN NotFoundResult(job.camera_id)
    ELSE OperationResult(job.camera_id, job.outcome)

\* a bug: the tasks are not awaited
Joinable_always(job) == TRUE

\* task.await can return for this job
Joinable(job) == job.st \in {"done", "crashed"}

\* a bug: fail-fast, nothing is collected after the first failure
Collect_fail_fast(results, job) ==
    IF \E k \in 1..Len(results) : ~results[k].success THEN results
    ELSE IF job.st = "done"
         THEN Append(results,
                     IF job.outcome = "not_found"
                     THEN [camera_id |-> job.camera_id, success |-> FALSE,
                           error |-> Some("Camera not found: " \o job.camera_id)]
                     ELSE [camera_id |-> job.camera_id,
                           success |-> job.outcome = "ok",
                           error |-> IF job.outcome = "ok" THEN None
                                     ELSE Some("failed")])
         ELSE results

\* match task.await: Ok(result) is pushed, Err(e) is logged
Collect(results, job) ==
    IF job.st = "done" THEN Append(results, JobResult(job)) ELSE results

\* `for task in tasks { task.await }`: the next task in order has finished
group_join(b) ==
    /\ batches[b].st = "joining"
    /\ batches[b].joined < Len(batches[b].jobs)
    /\ LET job == batches[b].jobs[batches[b].joined + 1] IN
       /\ Joinable(job)
       /\ batches' = [batches EXCEPT ![b].joined = @ + 1,
                                     ![b].results = Collect(@, job)]
    /\ last' = Internal
    /\ UNCHANGED <<cameras, persisted_settings, persistence_file_path, permits,
                   disk, clients, tasks, mgr_op, profiles_file>>

\* the batch commands that save the registry after execute_group_operation
SavesAfter(op) == op \in {"group_start_stream", "group_update_settings"}

\* every task has been awaited: Ok(results) is returned, after the save of
\* group_start_stream and group_update_settings; the read lock is released
group_return(b, io_ok) ==
    /\ batches[b].st = "joining"
    /\ batches[b].joined = Len(batches[b].jobs)
    /\ disk' = IF SavesAfter(batches[b].op)
               THEN save_cameras_to_disk(cameras, persistence_file_path, disk, io_ok)
               ELSE disk
    /\ last' = [op |-> batches[b].op, ok |-> TRUE,
                spawned |-> Len(batches[b].jobs),
                save |-> IF SavesAfter(batches[b].op)
                         THEN SaveOutcome(persistence_file_path, io_ok)
                         ELSE "not_called"]
    /\ batches' = [batches EXCEPT ![b] = IdleBatch]
    /\ UNCHANGED <<cameras, persisted_settings, persistence_file_path, permits,
                   clients, tasks, mgr_op, profiles_file>>

----------------------------------------------------------------------------
(* Single-device commands. start_stream and update_camera_settings are     *)
(* called by their commands under the manager's read lock, which is held   *)
(* while the request to the device is in flight; update_stream_settings    *)
(* needs the manager exclusively and awaits nothing but the save.          *)

\* get_persisted_settings
get_persisted_settings(ps, id) == IF id \in DOMAIN ps THEN Some(ps[id]) ELSE None

\* cameras.get(camera_id) found nothing: the command returns the error
SingleNotFound(op, id) ==
    /\ CanRead
    /\ id \notin DOMAIN cameras
    /\ last' = [op |-> op, id |-> id, ok |-> FALSE, error |-> NotFound(id),
                save |-> "not_called"]
    /\ UNCHANGED <<cameras, persisted_settings, persistence_file_path, permits,
                   disk, clients, tasks, mgr_op, batches, profiles_file>>

\* the camera is there: the request is recorded in persisted_settings and
\* sent to the device. The slot remembers what was recorded for the device
\* when the command was called (`before`, which the program does not keep).
SingleBegin(b, op, id, request, ps) ==
    /\ CanRead
    /\ batches[b].st = "idle"
    /\ id \in DOMAIN cameras
    /\ persisted_settings' = ps
    /\ batches' = [batches EXCEPT ![b] =
                      [st |-> "single", op |-> op, id |-> id, request |-> request,
                       before |-> get_persisted_settings(persisted_settings, id)]]
    /\ last' = Internal
    /\ UNCHANGED <<cameras, persistence_file_path, permits, disk, clients, tasks,
                   mgr_op, profiles_file>>

\* a bug: a failed save is returned to the caller as the command's error
SaveResult_propagated(io_ok) == io_ok

\* `if let Err(e) = self.save_cameras_to_disk().await { log::warn!(..) }`
\* followed by Ok(()): whether the command returns Ok after its save
SaveResult(io_ok) == TRUE

\* the device answered: an error is returned by `?` before the save, a
\* success is followed by the save and Ok(())
SingleFinish(b, op, outcome, io_ok) ==
    /\ batches[b].st = "single"
    /\ batches[b].op = op
    /\ IF outcome = "ok"
       THEN /\ disk' = save_cameras_to_disk(cameras, persistence_file_path, disk,
                                            io_ok)
            /\ last' = [op |-> op, id |-> batches[b].id,
                        request |-> batches[b].request,
                        ok |-> SaveResult(persistence_file_path => io_ok),
                        save |-> SaveOutcome(persistence_file_path, io_ok)]
       ELSE /\ disk' = disk
            /\ last' = [op |-> op, id |-> batches[b].id,
                        request |-> batches[b].request, ok |-> FALSE,
                        error |-> ErrorText(outcome), save |-> "not_called"]
    /\ batches' = [batches EXCEPT ![b] = IdleBatch]
    /\ UNCHANGED <<cameras, persisted_settings, persistence_file_path, permits,
                   clients, tasks, mgr_op, profiles_file>>

start_stream_not_found(id) == SingleNotFound("start_stream", id)

start_stream_begin(b, id, request) ==
    SingleBegin(b, "start_stream", id, request,
                SetStream(persisted_settings, id, request))

start_stream_finish(b, outcome, io_ok) ==
    SingleFinish(b, "start_stream", outcome, io_ok)

update_camera_settings_not_found(id) ==
    SingleNotFound("update_camera_settings", id)

update_camera_settings_begin(b, id, settings) ==
    SingleBegin(b, "update_camera_settings", id, settings,
                SetCamera(persisted_settings, id, settings))

update_camera_settings_finish(b, outcome, io_ok) ==
    SingleFinish(b, "update_camera_settings", outcome, io_ok)

\* update_stream_settings: the settings are recorded and the registry saved;
\* nothing is sent to the device
update_stream_settings(id, settings, io_ok) ==
    /\ CanWrite
    /\ IF id \in DOMAIN cameras
       THEN /\ persisted_settings' = SetStream(persisted_settings, id, settings)
            /\ disk' = save_cameras_to_disk(cameras, persistence_file_path, disk,
                                            io_ok)
            /\ last' = [op |-> "update_stream_settings", id |-> id,
                        request |-> settings,
                        ok |-> SaveResult(persistence_file_path => io_ok),
                        save |-> SaveOutcome(persistence_file_path, io_ok)]
       ELSE /\ last' = [op |-> "update_stream_settings", id |-> id,
                        ok |-> FALSE, error |-> NotFound(id),
                        save |-> "not_called"]
            /\ UNCHANGED <<persisted_settings, disk>>
    /\ UNCHANGED <<cameras, persistence_file_path, permits, clients, tasks,
                   mgr_op, batches, profiles_file>>

----------------------------------------------------------------------------
(* Inputs of the registry specification *)

\* identifiers a caller passes: those of the addresses, and one of no device
UnknownId == "missing"
Addrs == {<<"10.0.0.1", 8080>>, <<"10.0.0.1", 8081>>, <<"10.0.0.2", 8080>>}
Ids == {MakeId(a[1], a[2]) : a \in Addrs} \cup {UnknownId}

RegistryNext ==
    \/ \E a \in Addrs, token \in Tokens : add_camera_manual_begin(a[1], a[2], token)
    \/ add_camera_manual_fail
    \/ \E status \in Statuses, io_ok \in BOOLEAN : add_camera_manual_ok(status, io_ok)
    \/ \E id \in Ids : remove_camera_not_found(id)
    \/ \E id \in Ids : remove_camera_begin(id)
    \/ \E io_ok \in BOOLEAN : remove_camera_finish(io_ok)
    \/ \E id \in Ids, alias \in Aliases, io_ok \in BOOLEAN :
          update_camera_alias(id, alias, io_ok)
    \/ set_persistence_path

Spec == Init /\ [][RegistryNext]_vars

----------------------------------------------------------------------------
(* The reconnection task spawned by CameraClient::connect_websocket.        *)
(* pc: connect (handshake pending), session (reading frames), on_ok,       *)
(* on_err and on_drop (connect_websocket_internal has returned Ok, Err     *)
(* from the handshake, Err from the session; the flag not yet written),    *)
(* check1 (stop check before the sleep), sleep (for delay seconds), check2 *)
(* (stop check after the sleep), stopped (the task has left its loop).     *)
(* frames: what read.next() has yielded in the session the task is in or   *)
(* was last in; calls: the telemetry records the callback was invoked with *)
(* in that session.                                                        *)

TaskIds == 1..Len(tasks)

\* connect_async failed: connect_websocket_internal returns Err
ws_connect_fail(t) ==
    /\ tasks[t].pc = "connect"
    /\ tasks' = [tasks EXCEPT ![t].pc = "on_err"]
    /\ last' = Internal
    /\ UNCHANGED <<cameras, persisted_settings, persistence_file_path, permits,
                   disk, clients, mgr_op, batches, profiles_file>>

\* the handshake completed: the session reads frames
ws_connect_ok(t) ==
    /\ tasks[t].pc = "connect"
    /\ tasks' = [tasks EXCEPT ![t].pc = "session", ![t].frames = <<>>,
                              ![t].calls = <<>>]
    /\ last' = Internal
    /\ UNCHANGED <<cameras, persisted_settings, persistence_file_path, permits,
                   disk, clients, mgr_op, batches, profiles_file>>

\* a Close frame or the end of the stream: connect_websocket_internal returns Ok
ws_session_closed(t) ==
    /\ tasks[t].pc = "session"
    /\ tasks' = [tasks EXCEPT ![t].pc = "on_ok"]
    /\ last' = Internal
    /\ UNCHANGED <<cameras, persisted_settings, persistence_file_path, permits,
                   disk, clients, mgr_op, batches, profiles_file>>

\* a socket error while reading: connect_websocket_internal returns Err
ws_session_error(t) ==
    /\ tasks[t].pc = "session"
    /\ tasks' = [tasks EXCEPT ![t].pc = "on_drop"]
    /\ last' = Internal
    /\ UNCHANGED <<cameras, persisted_settings, persistence_file_path, permits,
                   disk, clients, mgr_op, batches, profiles_file>>

\* the fields of WebSocketTelemetryMessage, all of them required
TelemetryFields == {"fps", "bitrate", "queue_ms", "battery", "temp_c",
                    "wifi_rssi", "cpu_usage", "ndi_state", "dropped_frames",
                    "charging_state"}

\* the lowercase names serde accepts for NdiState
NdiStates == {"streaming", "idle"}

\* a telemetry document as a device sends it
Telemetry1 == [fps |-> 30, bitrate |-> 10000000, queue_ms |-> 4, battery |-> 80,
               temp_c |-> 35, wifi_rssi |-> -50, cpu_usage |-> 20,
               ndi_state |-> "streaming", dropped_frames |-> 0,
               charging_state |-> "charging"]

\* payloads of text frames: a JSON object, or text that is not JSON
JsonText(object) == [json |-> TRUE, object |-> object]
NotJson == [json |-> FALSE, object |-> [raw |-> "<html>"]]

\* the text frames a device sends: a telemetry document, one with a field the
\* controller does not know, one without its bitrate, one whose ndi_state is
\* no variant of NdiState, and text that is not JSON
Texts ==
    {JsonText(Telemetry1),
     JsonText([f \in TelemetryFields \cup {"uptime_s"} |->
                  IF f = "uptime_s" THEN 12
                  ELSE IF f = "fps" THEN 25 ELSE Telemetry1[f]]),
     JsonText([f \in TelemetryFields \ {"bitrate"} |-> Telemetry1[f]]),
     JsonText([Telemetry1 EXCEPT !.ndi_state = "paused"]),
     NotJson}

\* serde_json::from_str::<WebSocketTelemetryMessage>(&text): Some(record) for
\* Ok, None for Err. Unknown fields are ignored, a missing field or an unknown
\* variant is an error.
ParseTelemetry(text) ==
    IF /\ text.json
       /\ TelemetryFields \subseteq DOMAIN text.object
       /\ text.object["ndi_state"] \in NdiStates
    THEN Some([f \in TelemetryFields |-> text.object[f]])
    ELSE None

\* what one read.next().await can yield: Some(Ok(Message)) of kind text,
\* close, ping or binary (the `Ok(_)` arm), Some(Err(e)) as kind error, and
\* None, the end of the stream, as kind end
NoText == [json |-> FALSE, object |-> [raw |-> ""]]
ReadItems ==
    {[kind |-> "text", text |-> x] : x \in Texts}
        \cup {[kind |-> k, text |-> NoText] :
                  k \in {"close", "ping", "binary", "error", "end"}}

\* a bug: a text frame that does not parse ends the session with an error
OnRead_bad_frame_ends(task, item) ==
    LET read == [task EXCEPT !.frames = Append(@, item)] IN
    IF item.kind = "text"
    THEN IF IsSome(ParseTelemetry(item.text))
         THEN [read EXCEPT !.calls = Append(@, Unwrap(ParseTelemetry(item.text)))]
         ELSE [read EXCEPT !.pc = "on_drop"]
    ELSE IF item.kind \in {"close", "end"} THEN [read EXCEPT !.pc = "on_ok"]
    ELSE IF item.kind = "error" THEN [read EXCEPT !.pc = "on_drop"]
    ELSE read

\* one turn of `while let Some(msg) = read.next().await { match msg {..} }`:
\* the task after it has handled what the read yielded
OnRead(task, item) ==
    LET read == [task EXCEPT !.frames = Append(@, item)] IN
    IF item.kind = "text"
    THEN IF IsSome(ParseTelemetry(item.text))
         THEN [read EXCEPT !.calls = Append(@, Unwrap(ParseTelemetry(item.text)))]
         ELSE read
    ELSE IF item.kind \in {"close", "end"} THEN [read EXCEPT !.pc = "on_ok"]
    ELSE IF item.kind = "error" THEN [read EXCEPT !.pc = "on_drop"]
    ELSE read

\* the session reads its next item and handles it
ws_read(t, item) ==
    /\ tasks[t].pc = "session"
    /\ tasks' = [tasks EXCEPT ![t] = OnRead(@, item)]
    /\ last' = [op |-> "ws_read", task |-> t, item |-> item]
    /\ UNCHANGED <<cameras, persisted_settings, persistence_file_path, permits,
                   disk, clients, mgr_op, batches, profiles_file>>

\* ws_read while the session has read fewer than MaxFrames items; what ends
\* the session can always be read
ws_read_bounded(t, item) ==
    /\ Len(tasks[t].frames) < MaxFrames \/ item.kind \in {"close", "error", "end"}
    /\ ws_read(t, item)

\* a bug: after a session that ended normally the loop reconnects at once
ws_on_ok_reconnects_at_once(t) ==
    /\ tasks[t].pc = "on_ok"
    /\ clients' = [clients EXCEPT ![tasks[t].client].connected = TRUE]
    /\ tasks' = [tasks EXCEPT ![t].pc = "connect", ![t].reconnect_attempts = 0]
    /\ last' = Internal
    /\ UNCHANGED <<cameras, persisted_settings, persistence_file_path, permits,
                   disk, mgr_op, batches, profiles_file>>

\* Ok(_) arm: *connected.write().await = true; reconnect_attempts = 0
ws_on_ok(t) ==
    /\ tasks[t].pc = "on_ok"
    /\ clients' = [clients EXCEPT ![tasks[t].client].connected = TRUE]
    /\ tasks' = [tasks EXCEPT ![t].pc = "check1", ![t].reconnect_attempts = 0]
    /\ last' = Internal
    /\ UNCHANGED <<cameras, persisted_settings, persistence_file_path, permits,
                   disk, mgr_op, batches, profiles_file>>

\* a bug: the attempt ceiling is never checked
OnErr_no_ceiling(task, max_attempts) ==
    [task EXCEPT !.reconnect_attempts = @ + 1, !.pc = "check1"]

\* Err(e) arm: the flag is cleared, the counter incremented, and the loop is
\* left when the counter has reached max_attempts
OnErr(task, max_attempts) ==
    LET n == task.reconnect_attempts + 1 IN
    [task EXCEPT !.reconnect_attempts = n,
                 !.pc = IF n >= max_attempts THEN "stopped" ELSE "check1",
                 !.rx = IF n >= max_attempts THEN 0 ELSE @]

\* the Err(e) arm is the same for a failed handshake and a dropped session
ws_on_err(t) ==
    /\ tasks[t].pc \in {"on_err", "on_drop"}
    /\ clients' = [clients EXCEPT ![tasks[t].client].connected = FALSE]
    /\ tasks' = [tasks EXCEPT ![t] = OnErr(@, MAX_RECONNECT_ATTEMPTS)]
    /\ last' = Internal
    /\ UNCHANGED <<cameras, persisted_settings, persistence_file_path, permits,
                   disk, mgr_op, batches, profiles_file>>

\* a bug: 2^n is not capped at 2^5 and the delay not at MAX_RECONNECT_DELAY
Backoff_uncapped(n) == WS_RECONNECT_DELAY * 2^n

\* 2_u32.pow(reconnect_attempts.min(5)), WS_RECONNECT_DELAY * backoff_multiplier,
\* calculated_delay.min(MAX_RECONNECT_DELAY)
Backoff(n) ==
    LET backoff_multiplier == 2^(IF n < 5 THEN n ELSE 5)
        calculated_delay == WS_RECONNECT_DELAY * backoff_multiplier
    IN IF calculated_delay < MAX_RECONNECT_DELAY THEN calculated_delay
       ELSE MAX_RECONNECT_DELAY

\* a bug: the stop channel is never looked at
StopCheck_never(t, next) ==
    /\ tasks' = [tasks EXCEPT ![t] = next]
    /\ UNCHANGED clients

\* a bug: the loop is left on a stop signal without the flag being cleared
StopCheck_keeps_flag(t, next) ==
    /\ tasks' = [tasks EXCEPT ![t] = IF tasks[t].rx > 0
                                      THEN [tasks[t] EXCEPT !.pc = "stopped", !.rx = 0]
                                      ELSE next]
    /\ UNCHANGED clients

\* rx.try_recv().is_ok(): a pending stop signal is taken, the flag cleared and
\* the loop left; an empty channel (its sender dropped or not) lets the loop go
\* on as next
StopCheck(t, next) ==
    IF tasks[t].rx > 0
    THEN /\ clients' = [clients EXCEPT ![tasks[t].client].connected = FALSE]
         /\ tasks' = [tasks EXCEPT ![t].pc = "stopped", ![t].rx = 0]
    ELSE /\ tasks' = [tasks EXCEPT ![t] = next]
         /\ UNCHANGED clients

\* the check before the backoff sleep; the delay is then computed from the
\* counter and the task sleeps
ws_check_before_sleep(t) ==
    /\ tasks[t].pc = "check1"
    /\ StopCheck(t, [tasks[t] EXCEPT !.pc = "sleep",
                                     !.delay = Backoff(tasks[t].reconnect_attempts)])
    /\ last' = Internal
    /\ UNCHANGED <<cameras, persisted_settings, persistence_file_path, permits,
                   disk, mgr_op, batches, profiles_file>>

\* tokio::time::sleep(delay) has elapsed
ws_sleep_done(t) ==
    /\ tasks[t].pc = "sleep"
    /\ tasks' = [tasks EXCEPT ![t].pc = "check2", ![t].delay = 0]
    /\ last' = Internal
    /\ UNCHANGED <<cameras, persisted_settings, persistence_file_path, permits,
                   disk, clients, mgr_op, batches, profiles_file>>

\* the check after the sleep; the loop then starts the next attempt
ws_check_after_sleep(t) ==
    /\ tasks[t].pc = "check2"
    /\ StopCheck(t, [tasks[t] EXCEPT !.pc = "connect"])
    /\ last' = Internal
    /\ UNCHANGED <<cameras, persisted_settings, persistence_file_path, permits,
                   disk, mgr_op, batches, profiles_file>>

\* ws_on_err while the task has failed fewer than MaxAttempts times in a row
ws_on_err_bounded(t) ==
    /\ tasks[t].reconnect_attempts < MaxAttempts
    /\ ws_on_err(t)

----------------------------------------------------------------------------
(* Registry commands together with the reconnection tasks of their clients. *)
(* The tasks are followed through MaxAttempts consecutive failures.         *)

LifeAddrs == {<<"10.0.0.1", 8080>>, <<"10.0.0.2", 8080>>}
LifeIds == {MakeId(a[1], a[2]) : a \in LifeAddrs}
LifeStatus == [alias |-> "Cam1", ndi_state |-> "idle", current |-> Current1]

LifecycleNext ==
    \/ \E a \in LifeAddrs : add_camera_manual_begin(a[1], a[2], "secret")
    \/ add_camera_manual_fail
    \/ \E io_ok \in BOOLEAN : add_camera_manual_ok(LifeStatus, io_ok)
    \/ \E id \in LifeIds : remove_camera_not_found(id)
    \/ \E id \in LifeIds : remove_camera_begin(id)
    \/ \E io_ok \in BOOLEAN : remove_camera_finish(io_ok)
    \/ set_persistence_path
    \/ \E t \in TaskIds : ws_connect_fail(t)
    \/ \E t \in TaskIds : ws_connect_ok(t)
    \/ \E t \in TaskIds : ws_session_closed(t)
    \/ \E t \in TaskIds : ws_session_error(t)
    \/ \E t \in TaskIds : ws_on_ok(t)
    \/ \E t \in TaskIds : ws_on_err_bounded(t)
    \/ \E t \in TaskIds : ws_check_before_sleep(t)
    \/ \E t \in TaskIds : ws_sleep_done(t)
    \/ \E t \in TaskIds : ws_check_after_sleep(t)

SpecLifecycle == Init /\ [][LifecycleNext]_vars

----------------------------------------------------------------------------
(* Batch commands over a small registry *)

DispatchAddrs == {<<"10.0.0.1", 8080>>, <<"10.0.0.2", 8080>>}
DispatchIds == {MakeId(a[1], a[2]) : a \in DispatchAddrs} \cup {UnknownId}

\* the identifier lists a caller passes: any list of up to MaxIds identifiers
IdLists == UNION {[1..n -> DispatchIds] : n \in 1..MaxIds}

\* the commands and the request each carries
GroupCalls ==
    ({"group_start_stream"} \X StreamRequests)
        \cup ({"group_update_settings"} \X SettingsRequests)
        \cup {<<"group_stop_stream", None>>}

DispatchNext ==
    \/ \E a \in DispatchAddrs : add_camera_manual_begin(a[1], a[2], "")
    \/ add_camera_manual_fail
    \/ add_camera_manual_ok(LifeStatus, TRUE)
    \/ \E call \in GroupCalls, ids \in IdLists : group_begin(1, call[1], ids, call[2])
    \/ start_all_cameras_empty
    \/ \E ids \in IdLists : start_all_cameras_begin(1, ids)
    \/ \E i \in 1..MaxIds : job_acquire(1, i)
    \/ \E i \in 1..MaxIds, outcome \in Outcomes : job_finish(1, i, outcome)
    \/ \E i \in 1..MaxIds : job_crash(1, i)
    \/ \E i \in 1..MaxIds : job_not_found(1, i)
    \/ group_join(1)
    \/ \E io_ok \in BOOLEAN : group_return(1, io_ok)

SpecDispatch == Init /\ [][DispatchNext]_vars

----------------------------------------------------------------------------
(* Saturation of the semaphore: a group_stop_stream over LoadIds            *)
(* identifiers, all but one of them the registered camera, overlapping a   *)
(* start_all_cameras. Every request succeeds. The tasks of one command     *)
(* are the same task up to their place in the list, so they are followed   *)
(* taking their permits in the order they were spawned; they finish in any *)
(* order.                                                                  *)

LoadAddr == <<"10.0.0.1", 8080>>
LoadList == [i \in 1..LoadIds |-> IF i = 1 THEN UnknownId
                                  ELSE MakeId(LoadAddr[1], LoadAddr[2])]

\* no task spawned before job i of batch b is still waiting for a permit
InSpawnOrder(b, i) ==
    /\ batches[b].st = "joining"
    /\ \A j \in 1..(i - 1) :
          j \in 1..Len(batches[b].jobs) => batches[b].jobs[j].st # "waiting"

job_acquire_in_order(b, i) == InSpawnOrder(b, i) /\ job_acquire(b, i)

LoadNext ==
    \/ add_camera_manual_begin(LoadAddr[1], LoadAddr[2], "")
    \/ add_camera_manual_ok(LifeStatus, TRUE)
    \/ group_begin(1, "group_stop_stream", LoadList, None)
    \/ \E ids \in Orders(DOMAIN cameras) : start_all_cameras_begin(2, ids)
    \/ \E b \in BatchIds, i \in 1..LoadIds : job_acquire_in_order(b, i)
    \/ \E b \in BatchIds, i \in 1..LoadIds : job_finish(b, i, "ok")
    \/ \E i \in 1..LoadIds : job_not_found(1, i)
    \/ \E b \in BatchIds : group_join(b)
    \/ \E b \in BatchIds : group_return(b, TRUE)

SpecLoad == Init /\ [][LoadNext]_vars

----------------------------------------------------------------------------
(* A CameraClient driven through its public methods by its owner: new,     *)
(* connect_websocket, disconnect_websocket. mgr_op holds the call that is   *)
(* suspended inside the client.                                            *)

\* CameraClient::new: no stop sender, connected = false
CameraClient_new ==
    /\ mgr_op.kind = "none"
    /\ clients' = Append(clients, NewClient(0))
    /\ last' = [op |-> "CameraClient::new", client |-> Len(clients) + 1]
    /\ UNCHANGED <<cameras, persisted_settings, persistence_file_path, permits,
                   disk, tasks, mgr_op, batches, profiles_file>>

\* connect_websocket: a new channel, its sender stored over the one the client
\* held (which is dropped), a new task spawned with the receiver
connect_websocket(c) ==
    /\ mgr_op.kind = "none"
    /\ c \in 1..Len(clients)
    /\ ~clients[c].dropped
    /\ Len(tasks) < MaxConnects
    /\ tasks' = Append(tasks, NewTask(c))
    /\ clients' = [clients EXCEPT ![c].ws_stop_tx = Len(tasks) + 1]
    /\ last' = [op |-> "connect_websocket", client |-> c, ok |-> TRUE]
    /\ UNCHANGED <<cameras, persisted_settings, persistence_file_path, permits,
                   disk, mgr_op, batches, profiles_file>>

\* disconnect_websocket up to the write of the flag
disconnect_websocket_begin(c) ==
    /\ mgr_op.kind = "none"
    /\ c \in 1..Len(clients)
    /\ ~clients[c].dropped
    /\ clients' = ClearConnected(clients, c)
    /\ mgr_op' = [kind |-> "disconnect", client |-> c]
    /\ last' = [op |-> "disconnect_websocket.clear", client |-> c]
    /\ UNCHANGED <<cameras, persisted_settings, persistence_file_path, permits,
                   disk, tasks, batches, profiles_file>>

\* disconnect_websocket from the take of the sender to its return
disconnect_websocket_finish ==
    /\ mgr_op.kind = "disconnect"
    /\ LET c == mgr_op.client
           sig == TakeAndSignal(clients, tasks, c)
       IN /\ clients' = sig[1]
          /\ tasks' = sig[2]
          /\ last' = [op |-> "disconnect_websocket", client |-> c,
                      signalled |-> clients[c].ws_stop_tx # 0]
    /\ mgr_op' = NoOp
    /\ UNCHANGED <<cameras, persisted_settings, persistence_file_path, permits,
                   disk, batches, profiles_file>>

\* the one client of this specification
client_create == Len(clients) = 0 /\ CameraClient_new

ClientNext ==
    \/ client_create
    \/ \E c \in 1..Len(clients) : connect_websocket(c)
    \/ \E c \in 1..Len(clients) : disconnect_websocket_begin(c)
    \/ disconnect_websocket_finish
    \/ \E t \in TaskIds : ws_connect_fail(t)
    \/ \E t \in TaskIds : ws_connect_ok(t)
    \/ \E t \in TaskIds : ws_session_closed(t)
    \/ \E t \in TaskIds : ws_session_error(t)
    \/ \E t \in TaskIds : ws_on_ok(t)
    \/ \E t \in TaskIds : ws_on_err_bounded(t)
    \/ \E t \in TaskIds : ws_check_before_sleep(t)
    \/ \E t \in TaskIds : ws_sleep_done(t)
    \/ \E t \in TaskIds : ws_check_after_sleep(t)

SpecClient == Init /\ [][ClientNext]_vars

----------------------------------------------------------------------------
(* Registry and per-device settings commands whose save can fail: devices  *)
(* are registered, renamed and removed, and single-device commands record  *)
(* settings for them, before and after the startup task has set the path.  *)

SettingsAddrs == {<<"10.0.0.1", 8080>>, <<"10.0.0.2", 8080>>}
SettingsIds == {MakeId(a[1], a[2]) : a \in SettingsAddrs}

SettingsNext ==
    \/ set_persistence_path
    \/ \E a \in SettingsAddrs : add_camera_manual_begin(a[1], a[2], "secret")
    \/ add_camera_manual_fail
    \/ \E io_ok \in BOOLEAN : add_camera_manual_ok(LifeStatus, io_ok)
    \/ \E id \in SettingsIds : remove_camera_begin(id)
    \/ \E io_ok \in BOOLEAN : remove_camera_finish(io_ok)
    \/ \E id \in SettingsIds, alias \in Aliases, io_ok \in BOOLEAN :
          update_camera_alias(id, alias, io_ok)
    \/ \E id \in SettingsIds : start_stream_not_found(id)
    \/ \E id \in SettingsIds, request \in StreamRequests :
          start_stream_begin(1, id, request)
    \/ \E outcome \in Outcomes, io_ok \in BOOLEAN :
          start_stream_finish(1, outcome, io_ok)
    \/ \E id \in SettingsIds : update_camera_settings_not_found(id)
    \/ \E id \in SettingsIds, settings \in SettingsRequests :
          update_camera_settings_begin(1, id, settings)
    \/ \E outcome \in Outcomes, io_ok \in BOOLEAN :
          update_camera_settings_finish(1, outcome, io_ok)
    \/ \E id \in SettingsIds, settings \in StreamRequests, io_ok \in BOOLEAN :
          update_stream_settings(id, settings, io_ok)

SpecSettings == Init /\ [][SettingsNext]_vars

----------------------------------------------------------------------------
(* Startup: devices are registered and given stream settings, the          *)
(* application is restarted and loads cameras.json. At load time any       *)
(* device answers its probe with one of Statuses or not at all.            *)

StartupAddrs == {<<"10.0.0.1", 8080>>, <<"10.0.0.2", 8080>>}
StartupIds == {MakeId(a[1], a[2]) : a \in StartupAddrs}

StartupNext ==
    \/ set_persistence_path
    \/ set_persistence_path_unreadable
    \/ \E todo \in Orders(disk.cameras) : set_persistence_path_load(todo)
    \/ load_camera_fail
    \/ \E status \in Statuses : load_camera_ok(status, TRUE)
    \/ \E a \in StartupAddrs : add_camera_manual_begin(a[1], a[2], "secret")
    \/ add_camera_manual_fail
    \/ add_camera_manual_ok(LifeStatus, TRUE)
    \/ \E id \in StartupIds, settings \in StreamRequests :
          update_stream_settings(id, settings, TRUE)
    \/ restart

SpecStartup == Init /\ [][StartupNext]_vars

----------------------------------------------------------------------------
(* start_all_cameras over a registry whose devices have been given stream  *)
(* settings, some of them more than once, some of them never.              *)

StartAllAddrs == {<<"10.0.0.1", 8080>>, <<"10.0.0.2", 8080>>}
StartAllIds == {MakeId(a[1], a[2]) : a \in StartAllAddrs}
StartAllRequests ==
    StreamRequests \cup {[resolution |-> "3840x2160", framerate |-> 25,
                          bitrate |-> 20000000, codec |-> "hevc"]}

StartAllNext ==
    \/ \E a \in StartAllAddrs : add_camera_manual_begin(a[1], a[2], "secret")
    \/ add_camera_manual_fail
    \/ add_camera_manual_ok(LifeStatus, TRUE)
    \/ \E id \in StartAllIds, settings \in StartAllRequests :
          update_stream_settings(id, settings, TRUE)
    \/ start_all_cameras_empty
    \/ \E ids \in Orders(DOMAIN cameras) : start_all_cameras_begin(1, ids)
    \/ \E i \in 1..Cardinality(StartAllIds) : job_acquire(1, i)
    \/ \E i \in 1..Cardinality(StartAllIds), outcome \in Outcomes :
          job_finish(1, i, outcome)
    \/ \E i \in 1..Cardinality(StartAllIds) : job_crash(1, i)
    \/ group_join(1)
    \/ group_return(1, TRUE)

SpecStartAll == Init /\ [][StartAllNext]_vars

----------------------------------------------------------------------------
(* The profile store: profiles are saved and deleted by name, before and   *)
(* after the startup task has set the paths. Reading the file back and     *)
(* writing it can fail.                                                    *)

ProfilesNext ==
    \/ set_persistence_path
    \/ \E name \in ProfileNames, settings \in ProfileSettings,
          read_ok \in BOOLEAN, io_ok \in BOOLEAN :
          save_profile(name, settings, read_ok, io_ok)
    \/ \E name \in ProfileNames, read_ok \in BOOLEAN, io_ok \in BOOLEAN :
          delete_profile(name, read_ok, io_ok)

SpecProfiles == Init /\ [][ProfilesNext]_vars

----------------------------------------------------------------------------
(* One client, connected once, whose sessions are followed frame by frame. *)

\* the one connect_websocket call of this specification
session_connect == Len(tasks) = 0 /\ connect_websocket(1)

SessionNext ==
    \/ client_create
    \/ session_connect
    \/ \E t \in TaskIds : ws_connect_fail(t)
    \/ \E t \in TaskIds : ws_connect_ok(t)
    \/ \E t \in TaskIds, item \in ReadItems : ws_read_bounded(t, item)
    \/ \E t \in TaskIds : ws_on_ok(t)
    \/ \E t \in TaskIds : ws_on_err_bounded(t)
    \/ \E t \in TaskIds : ws_check_before_sleep(t)
    \/ \E t \in TaskIds : ws_sleep_done(t)
    \/ \E t \in TaskIds : ws_check_after_sleep(t)

SpecSession == Init /\ [][SessionNext]_vars

----------------------------------------------------------------------------
(* One device and its reconnection task, followed to the attempt ceiling:  *)
(* the device is registered once, may be removed, and its task runs for as *)
(* long as the code lets it. The runtime keeps scheduling a task that can  *)
(* take a step, and every handshake and every session ends.                *)

ReconnectAddr == <<"10.0.0.1", 8080>>
ReconnectId == MakeId(ReconnectAddr[1], ReconnectAddr[2])

\* the one registration of this specification
add_first_camera ==
    /\ Len(clients) = 0
    /\ add_camera_manual_begin(ReconnectAddr[1], ReconnectAddr[2], "secret")

\* a step of a reconnection task
TaskStep ==
    \E t \in TaskIds :
        \/ ws_connect_fail(t)
        \/ ws_connect_ok(t)
        \/ ws_session_closed(t)
        \/ ws_session_error(t)
        \/ ws_on_ok(t)
        \/ ws_on_err(t)
        \/ ws_check_before_sleep(t)
        \/ ws_sleep_done(t)
        \/ ws_check_after_sleep(t)

ReconnectNext ==
    \/ add_first_camera
    \/ add_camera_manual_fail
    \/ add_camera_manual_ok(LifeStatus, TRUE)
    \/ remove_camera_begin(ReconnectId)
    \/ remove_camera_finish(TRUE)
    \/ \E t \in TaskIds : ws_connect_fail(t)
    \/ \E t \in TaskIds : ws_connect_ok(t)
    \/ \E t \in TaskIds : ws_session_closed(t)
    \/ \E t \in TaskIds : ws_session_error(t)
    \/ \E t \in TaskIds : ws_on_ok(t)
    \/ \E t \in TaskIds : ws_on_err(t)
    \/ \E t \in TaskIds : ws_check_before_sleep(t)
    \/ \E t \in TaskIds : ws_sleep_done(t)
    \/ \E t \in TaskIds : ws_check_after_sleep(t)

SpecReconnect == Init /\ [][ReconnectNext]_vars /\ WF_vars(TaskStep)

----------------------------------------------------------------------------
(* The saturation of the semaphore under the scheduling of the runtime: a  *)
(* spawned task that can take a step takes one, a request that was sent is *)
(* answered, and the semaphore hands a permit to every waiter (its queue   *)
(* is first in, first out), so a task that can take a permit again and     *)
(* again does take one.                                                    *)

\* a step of a task of batch b, or of the command awaiting its tasks
BatchStep(b) ==
    \/ \E i \in 1..LoadIds : job_finish(b, i, "ok")
    \/ \E i \in 1..LoadIds : job_not_found(b, i)
    \/ group_join(b)
    \/ group_return(b, TRUE)

\* a task of batch b takes a permit
BatchAcquire(b) == \E i \in 1..LoadIds : job_acquire_in_order(b, i)

\* the saturation specification with its device registered once
FairNext ==
    \/ add_first_camera
    \/ add_camera_manual_ok(LifeStatus, TRUE)
    \/ group_begin(1, "group_stop_stream", LoadList, None)
    \/ \E ids \in Orders(DOMAIN cameras) : start_all_cameras_begin(2, ids)
    \/ \E b \in BatchIds : BatchAcquire(b)
    \/ \E b \in BatchIds : BatchStep(b)

SpecLoadFair ==
    /\ Init /\ [][FairNext]_vars
    /\ \A b \in BatchIds : WF_vars(BatchStep(b)) /\ SF_vars(BatchAcquire(b))

----------------------------------------------------------------------------
(* Listing the registry: devices are registered, then polled by            *)
(* get_all_cameras; every poll of a device fails or answers one of         *)
(* Statuses, whatever the device answered before.                          *)

ListAddrs == {<<"10.0.0.1", 8080>>, <<"10.0.0.2", 8080>>}

ListNext ==
    \/ \E a \in ListAddrs : add_camera_manual_begin(a[1], a[2], "secret")
    \/ add_camera_manual_fail
    \/ \E status \in Statuses : add_camera_manual_ok(status, TRUE)
    \/ \E ids \in Orders(DOMAIN cameras), probes \in ProbeOutcomes(cameras) :
          get_all_cameras(ids, probes)

SpecList == Init /\ [][ListNext]_vars

----------------------------------------------------------------------------
(* The HTTP operations of the device client: one request, one response,    *)
(* and the Result the method returns for it.                               *)

HttpOps == {"get_status", "get_capabilities", "start_stream", "stop_stream",
            "update_camera_settings", "measure_white_balance"}

\* the operations sent with self.get; the others are sent with self.post
GetOps == {"get_status", "get_capabilities"}

\* the operations that deserialize the body of a successful response
BodyOps == {"get_status", "get_capabilities", "measure_white_balance"}

\* the required fields of StatusResponse, Capability, ErrorResponse and
\* WhiteBalanceMeasureResponse
StatusFields == {"alias", "ndi_state", "current", "telemetry", "capabilities"}
CapabilityFields == {"resolution", "fps", "codec"}
ErrorFields == {"code", "message"}
MeasureFields == {"scene_cct_k", "tint"}

\* a JSON array as the payload of a body
JsonArray(items) == JsonText([array |-> items])

\* response bodies a device sends: a status document, a capability list, a
\* white balance measurement, two structured errors, an error without its
\* code, an error without its message, text that is not JSON, and a body
\* whose transfer breaks off
StatusBody ==
    JsonText([alias |-> "Cam1", ndi_state |-> "idle", current |-> Current1,
              telemetry |-> Telemetry1, capabilities |-> <<>>])
CapabilityBody ==
    JsonArray(<<[resolution |-> "1920x1080", fps |-> <<30, 60>>,
                 codec |-> <<"h264">>]>>)
MeasureBody == JsonText([scene_cct_k |-> 5600, tint |-> 3])
Bodies ==
    {StatusBody, CapabilityBody, MeasureBody,
     JsonText(ServerError),
     JsonText([code |-> "UNAUTHORIZED", message |-> "Invalid token",
               detail |-> "expired"]),
     JsonText([message |-> "Stream already running"]),
     JsonText([code |-> "INVALID_STATE"]),
     NotJson, NoText}

\* status codes a device answers with
StatusCodes == {200, 204, 400, 401, 404, 500}

\* what one request meets: the transport fails (no connection, or the
\* 5 second timeout), or a response arrives
Responses ==
    {[transport |-> t, status |-> 0, body |-> NoText] :
         t \in {"connect_error", "timeout"}}
        \cup {[transport |-> "ok", status |-> c, body |-> b] :
                  c \in StatusCodes, b \in Bodies}

\* a bug: every response counts as a success
is_success_always(code) == TRUE

\* StatusCode::is_success
is_success(code) == 200 <= code /\ code <= 299

\* response.json::<ErrorResponse>()
ParseError(body) ==
    IF body.json /\ ErrorFields \subseteq DOMAIN body.object
    THEN Some([f \in ErrorFields |-> body.object[f]])
    ELSE None

\* response.json::<T>() for the T the operation returns
ParseBody(op, body) ==
    IF ~body.json THEN None
    ELSE IF op = "get_status"
    THEN IF StatusFields \subseteq DOMAIN body.object
         THEN Some([f \in StatusFields |-> body.object[f]])
         ELSE None
    ELSE IF op = "get_capabilities"
    THEN IF /\ DOMAIN body.object = {"array"}
            /\ \A i \in DOMAIN body.object.array :
                   CapabilityFields \subseteq DOMAIN body.object.array[i]
         THEN Some(body.object.array)
         ELSE None
    ELSE IF MeasureFields \subseteq DOMAIN body.object
         THEN Some([f \in MeasureFields |-> body.object[f]])
         ELSE None

\* Result<T>: Ok(value) or Err(e) with e.to_string()
HttpOk(value) == [ok |-> TRUE, value |-> value, error |-> ""]
HttpErr(text) == [ok |-> FALSE, value |-> None, error |-> text]

\* the context of the error that self.get / self.post returns
SendError(op) ==
    IF op \in GetOps THEN "HTTP GET request failed"
    ELSE "HTTP POST request failed"

\* the context of the error for a body that does not deserialize
BodyError(op) ==
    IF op = "get_status" THEN "Failed to parse status response"
    ELSE IF op = "get_capabilities" THEN "Failed to parse capabilities response"
    ELSE "Failed to parse white balance measure response"

\* get_status .. measure_white_balance: what the method returns for the
\* response its request met
HttpCall(op, response) ==
    IF response.transport # "ok" THEN HttpErr(SendError(op))
    ELSE IF ~is_success(response.status)
    THEN LET error == ParseError(response.body) IN
         IF IsSome(error)
         THEN HttpErr(Unwrap(error).code \o ": " \o Unwrap(error).message)
         ELSE HttpErr("Failed to parse error response")
    ELSE IF op \in BodyOps
    THEN LET value == ParseBody(op, response.body) IN
         IF IsSome(value) THEN HttpOk(value) ELSE HttpErr(BodyError(op))
    ELSE HttpOk(None)

\* a caller runs one operation of a client against its device
http_call(op, response) ==
    /\ last' = [op |-> "http", method |-> op, response |-> response,
                result |-> HttpCall(op, response)]
    /\ UNCHANGED <<cameras, persisted_settings, persistence_file_path, permits,
                   disk, clients, tasks, mgr_op, batches, profiles_file>>

HttpNext == \E op \in HttpOps, response \in Responses : http_call(op, response)

SpecHttp == Init /\ [][HttpNext]_vars

----------------------------------------------------------------------------
(* Settings commands against one registered device and one identifier that *)
(* is never registered: single-device commands and batches, one at a time, *)
(* whose requests the device accepts or refuses.                           *)

AppliedAddr == <<"10.0.0.1", 8080>>
AppliedId == MakeId(AppliedAddr[1], AppliedAddr[2])
AppliedLists ==
    {ids \in UNION {[1..n -> {AppliedId, UnknownId}] : n \in 1..MaxIds} : TRUE}

AppliedNext ==
    \/ add_camera_manual_begin(AppliedAddr[1], AppliedAddr[2], "secret")
    \/ add_camera_manual_fail
    \/ add_camera_manual_ok(LifeStatus, TRUE)
    \/ \E request \in StartAllRequests : start_stream_begin(1, AppliedId, request)
    \/ \E outcome \in Outcomes : start_stream_finish(1, outcome, TRUE)
    \/ \E settings \in SettingsRequests :
          update_camera_settings_begin(1, AppliedId, settings)
    \/ \E outcome \in Outcomes : update_camera_settings_finish(1, outcome, TRUE)
    \/ \E ids \in AppliedLists, request \in StartAllRequests :
          group_begin(1, "group_start_stream", ids, request)
    \/ \E ids \in AppliedLists, settings \in SettingsRequests :
          group_begin(1, "group_update_settings", ids, settings)
    \/ \E i \in 1..MaxIds : job_acquire(1, i)
    \/ \E i \in 1..MaxIds, outcome \in Outcomes : job_finish(1, i, outcome)
    \/ \E i \in 1..MaxIds : job_not_found(1, i)
    \/ group_join(1)
    \/ group_return(1, TRUE)

SpecApplied == Init /\ [][AppliedNext]_vars

----------------------------------------------------------------------------
(* One device that is registered, registered again, removed, or cleared    *)
(* with the whole registry, and the reconnection tasks of its clients.     *)

ClearAddr == <<"10.0.0.1", 8080>>
ClearId == MakeId(ClearAddr[1], ClearAddr[2])

ClearNext ==
    \/ set_persistence_path
    \/ add_camera_manual_begin(ClearAddr[1], ClearAddr[2], "secret")
    \/ add_camera_manual_fail
    \/ add_camera_manual_ok(LifeStatus, TRUE)
    \/ remove_camera_begin(ClearId)
    \/ remove_camera_finish(TRUE)
    \/ \E io_ok \in BOOLEAN : delete_cameras_data(io_ok)
    \/ \E t \in TaskIds : ws_connect_fail(t)
    \/ \E t \in TaskIds : ws_connect_ok(t)
    \/ \E t \in TaskIds : ws_session_closed(t)
    \/ \E t \in TaskIds : ws_session_error(t)
    \/ \E t \in TaskIds : ws_on_ok(t)
    \/ \E t \in TaskIds : ws_on_err_bounded(t)
    \/ \E t \in TaskIds : ws_check_before_sleep(t)
    \/ \E t \in TaskIds : ws_sleep_done(t)
    \/ \E t \in TaskIds : ws_check_after_sleep(t)

SpecClear == Init /\ [][ClearNext]_vars

----------------------------------------------------------------------------
(* Renames across a restart: devices are registered and renamed, the       *)
(* application is restarted and loads cameras.json. A device answers a     *)
(* probe with the alias it has itself, or not at all.                      *)

RenameNext ==
    \/ set_persistence_path
    \/ \E todo \in Orders(disk.cameras) : set_persistence_path_load(todo)
    \/ load_camera_fail
    \/ \E status \in Statuses : load_camera_ok(status, TRUE)
    \/ \E a \in StartupAddrs : add_camera_manual_begin(a[1], a[2], "secret")
    \/ add_camera_manual_fail
    \/ add_camera_manual_ok(LifeStatus, TRUE)
    \/ \E id \in StartupIds, alias \in Aliases :
          update_camera_alias(id, alias, TRUE)
    \/ restart

SpecRename == Init /\ [][RenameNext]_vars

----------------------------------------------------------------------------
(* Properties of the HTTP operations of the device client *)

\* the body of a response deserializes as what the operation returns
BodyParses(op, body) == IsSome(ParseBody(op, body))

\* C31: an HTTP operation of the device client returns success only for a
\* response with a success status whose body, where the operation reads
\* it, parses; for a non-success status it fails with "code: message" of
\* the error body when that parses and with the parse failure otherwise;
\* when the transport fails or times out it fails.
C31_HttpResultFollowsResponse ==
    last.op = "http" =>
        LET response == last.response
            result == last.result
            success == response.status \in 200..299
        IN  /\ result.ok =>
                /\ response.transport = "ok"
                /\ success
                /\ last.method \in {"get_status", "get_capabilities",
                                    "measure_white_balance"} =>
                       BodyParses(last.method, response.body)
            /\ (response.transport = "ok" /\ ~success) =>
                /\ ~result.ok
                /\ \/ /\ IsSome(ParseError(response.body))
                      /\ result.error =
                             Unwrap(ParseError(response.body)).code \o ": "
                                 \o Unwrap(ParseError(response.body)).message
                   \/ /\ ~IsSome(ParseError(response.body))
                      /\ result.error = "Failed to parse error response"
            /\ response.transport # "ok" => ~result.ok

\* a device refused start_stream with a body that is no structured error,
\* and the call failed on parsing it
C31_Witness ==
    /\ last.op = "http"
    /\ last.method = "start_stream"
    /\ last.response.transport = "ok"
    /\ last.response.status = 500
    /\ last.response.body = NotJson
    /\ ~last.result.ok
    /\ last.result.error = "Failed to parse error response"

----------------------------------------------------------------------------
(* Properties of the recorded settings *)

\* C32: a single-device start_stream / update_camera_settings that returns
\* an error leaves what is recorded for its device as it was when the
\* command was called, and no step creates or alters the recorded settings
\* of an identifier that is not in the registry.
C32_FailedCommandKeepsSettings ==
    [][/\ \A b \in BatchIds :
              (batches[b].st = "single" /\ batches'[b].st = "idle" /\ ~last'.ok) =>
                  get_persisted_settings(persisted_settings', batches[b].id)
                      = batches[b].before
       /\ \A id \in DOMAIN persisted_settings' :
              id \notin DOMAIN cameras =>
                  /\ id \in DOMAIN persisted_settings
                  /\ persisted_settings'[id] = persisted_settings[id]]_vars

----------------------------------------------------------------------------
(* Properties of the batch commands *)

GroupOps == {"group_start_stream", "group_stop_stream", "group_update_settings"}

\* batch b has awaited every task and is about to return Ok(results)
Complete(b) ==
    /\ batches[b].st = "joining"
    /\ batches[b].joined = Len(batches[b].jobs)

Crashed(b) == \E i \in 1..Len(batches[b].jobs) : batches[b].jobs[i].st = "crashed"

\* occurrences of identifier id in a list of identifiers
Count(id, ids) == Cardinality({i \in 1..Len(ids) : ids[i] = id})

ResultIds(b) == [i \in 1..Len(batches[b].results) |-> batches[b].results[i].camera_id]

\* C1: a batch dispatch in which no task crashed returns exactly one result per
\* input identifier: as many results as identifiers, and every identifier,
\* registered or not, as often among the results as in the input.
C1_OneResultPerIdentifier ==
    \A b \in BatchIds :
        (Complete(b) /\ batches[b].op \in GroupOps /\ ~Crashed(b)) =>
            /\ Len(batches[b].results) = Len(batches[b].ids)
            /\ \A id \in DispatchIds :
                  Count(id, ResultIds(b)) = Count(id, batches[b].ids)

\* a dispatch with a repeated identifier and an unknown one is about to return
C1_Witness ==
    \E b \in BatchIds :
        /\ Complete(b) /\ batches[b].op \in GroupOps /\ ~Crashed(b)
        /\ Len(batches[b].ids) >= 2
        /\ \E i, j \in 1..Len(batches[b].ids) :
              /\ i # j
              /\ batches[b].ids[i] = batches[b].ids[j]
              /\ batches[b].jobs[i].found
        /\ Len(batches[b].results) = Len(batches[b].ids)

\* the jobs of batch b whose task returned a result, in spawn order
Returned(b) == SelectSeq(batches[b].jobs, LAMBDA job : job.st = "done")

\* the result the caller must see for a job, from what happened to that job alone
ExpectedResult(job) ==
    [camera_id |-> job.camera_id,
     success |-> job.found /\ job.outcome = "ok",
     error |-> IF ~job.found THEN Some("Camera not found: " \o job.camera_id)
               ELSE IF job.outcome = "ok" THEN None
               ELSE IF job.outcome = "server_error"
                    THEN Some("INVALID_STATE: Stream already running")
                    ELSE Some("HTTP POST request failed")]

\* C2: what a batch dispatch returns for a device is decided by that device's
\* own operation (its response, or its identifier being unknown) and by nothing
\* that happened to a sibling; and the call itself returns Ok whatever failed.
C2_FailuresStayPerDevice ==
    /\ \A b \in BatchIds :
          Complete(b) =>
              /\ Len(batches[b].results) = Len(Returned(b))
              /\ \A k \in 1..Len(batches[b].results) :
                    batches[b].results[k] = ExpectedResult(Returned(b)[k])
    /\ (last.op \in GroupOps \cup {"start_all_cameras"}) => last.ok

\* a dispatch is about to return a success next to a device failure
C2_Witness ==
    \E b \in BatchIds :
        /\ Complete(b)
        /\ \E i, j \in 1..Len(batches[b].results) :
              /\ batches[b].results[i].success
              /\ ~batches[b].results[j].success
              /\ batches[b].results[j].error = Some("INVALID_STATE: Stream already running")
              /\ batches[b].results[i].camera_id # batches[b].results[j].camera_id

\* jobs that hold a permit
InFlight ==
    Cardinality({p \in BatchIds \X (1..LoadIds) :
                    /\ batches[p[1]].st = "joining"
                    /\ p[2] <= Len(batches[p[1]].jobs)
                    /\ batches[p[1]].jobs[p[2]].st = "running"})

\* C3: over all batch commands running at the same time, start_all_cameras
\* included, at most MAX_CONCURRENT_OPERATIONS (10) per-device operations are
\* in flight, and the semaphore accounts for each of them.
C3_AtMostTenInFlight ==
    /\ InFlight <= 10
    /\ permits = 10 - InFlight

\* ten operations of two overlapping commands in flight, one more waiting
C3_Witness ==
    /\ InFlight = 10
    /\ \E i \in 1..LoadIds :
          /\ batches[1].st = "joining"
          /\ batches[1].jobs[i].st = "waiting"
    /\ batches[2].st = "joining"
    /\ batches[2].op = "start_all_cameras"
    /\ batches[2].jobs[1].st = "running"

\* the jobs of unknown identifiers
UnknownJobs ==
    {p \in BatchIds \X (1..LoadIds) :
        /\ batches[p[1]].st = "joining"
        /\ p[2] <= Len(batches[p[1]].jobs)
        /\ batches[p[1]].jobs[p[2]].camera_id \notin DOMAIN cameras}

\* C4: the task of an identifier that is not in the registry never takes a
\* permit (it is never waiting for one nor running with one, and the permits
\* held are those of registered devices only), can return its result whatever
\* the number of free permits, and that result is the failure 'Camera not found'.
C4_UnknownIdTakesNoPermit ==
    /\ \A p \in UnknownJobs :
          LET job == batches[p[1]].jobs[p[2]] IN
          /\ job.st \in {"ready", "done"}
          /\ job.st = "ready" => ENABLED job_not_found(p[1], p[2])
          /\ (job.st = "done" /\ batches[p[1]].joined >= p[2]) =>
                \E k \in 1..Len(batches[p[1]].results) :
                    batches[p[1]].results[k] =
                        [camera_id |-> job.camera_id, success |-> FALSE,
                         error |-> Some("Camera not found: " \o job.camera_id)]
    /\ permits = 10 - Cardinality({p \in (BatchIds \X (1..LoadIds)) \ UnknownJobs :
                                      /\ batches[p[1]].st = "joining"
                                      /\ p[2] <= Len(batches[p[1]].jobs)
                                      /\ batches[p[1]].jobs[p[2]].st = "running"})

\* every permit is held and the unknown identifier has its result
C4_Witness ==
    /\ permits = 0
    /\ \E p \in UnknownJobs :
          /\ batches[p[1]].jobs[p[2]].st = "done"
          /\ batches[p[1]].joined >= p[2]

\* C5: the step in which a batch dispatch returns starts from a state in which
\* every task it spawned has finished: none waits for a permit, none is in flight.
C5_ReturnsAfterEveryTask ==
    [][\A b \in BatchIds :
          (batches[b].st = "joining" /\ batches'[b].st = "idle") =>
              \A i \in 1..Len(batches[b].jobs) :
                  batches[b].jobs[i].st \in {"done", "crashed"}]_vars

\* a dispatch that spawned two tasks has returned
C5_Witness ==
    /\ last.op \in GroupOps
    /\ last.ok
    /\ last.spawned = 2
    /\ batches[1].st = "idle"
    /\ permits = 10

\* the jobs of batch b spawned for identifier id
JobsFor(b, id) ==
    {i \in 1..Len(batches[b].jobs) : batches[b].jobs[i].camera_id = id}

\* the stream settings the claim gives for a device: those recorded for it,
\* or 1920x1080, 30 fps, 10,000,000 b/s, h264
ClaimedStream(ps, id) ==
    IF id \in DOMAIN ps /\ ps[id][1] # None
    THEN ps[id][1][1]
    ELSE [resolution |-> "1920x1080", framerate |-> 30, bitrate |-> 10000000,
          codec |-> "h264"]

\* C28: start_all_cameras spawns exactly one start-stream task per registered
\* device, whose request is the stream settings recorded for that device (a
\* recorded request replaces the one recorded before) or else the fixed
\* default; nothing is polled. A task sends its request once. When no task
\* crashed the call returns one result per registered device, and with an
\* empty registry it returns at once with nothing spawned.
C28_StartAllUsesPersisted ==
    /\ [](\A b \in BatchIds :
             (batches[b].st = "joining" /\ batches[b].op = "start_all_cameras") =>
                 /\ Len(batches[b].jobs) = Cardinality(DOMAIN cameras)
                 /\ \A id \in DOMAIN cameras :
                        /\ Cardinality(JobsFor(b, id)) = 1
                        /\ \A i \in JobsFor(b, id) :
                               /\ batches[b].jobs[i].found
                               /\ batches[b].jobs[i].request =
                                      ClaimedStream(persisted_settings, id)
                 /\ (Complete(b) /\ ~Crashed(b)) =>
                        /\ Len(batches[b].results) = Cardinality(DOMAIN cameras)
                        /\ \A id \in DOMAIN cameras :
                               Count(id, ResultIds(b)) = 1)
    /\ [][/\ (last'.op = "update_stream_settings" /\ last'.ok) =>
                 persisted_settings'[last'.id][1] = Some(last'.request)
          /\ \A b \in BatchIds :
                 (batches[b].st = "joining" /\ batches'[b].st = "joining") =>
                     \A i \in 1..Len(batches[b].jobs) :
                        /\ batches'[b].jobs[i].request = batches[b].jobs[i].request
                        /\ batches[b].jobs[i].st \in {"done", "crashed"} =>
                               batches'[b].jobs[i].st = batches[b].jobs[i].st
                        /\ batches'[b].jobs[i].st = "running" =>
                               batches[b].jobs[i].st \in {"waiting", "running"}
          /\ (last'.op = "start_all_cameras" /\ DOMAIN cameras = {}) =>
                 /\ last'.ok
                 /\ last'.spawned = 0
                 /\ batches' = batches]_vars

\* start_all_cameras is about to return two results: one device was started
\* with the settings recorded for it, the other with the default
C28_Witness ==
    \E b \in BatchIds :
        /\ Complete(b)
        /\ batches[b].op = "start_all_cameras"
        /\ Len(batches[b].results) = 2
        /\ \E i, j \in 1..2 :
              /\ batches[b].jobs[i].request.resolution = "3840x2160"
              /\ batches[b].jobs[j].request.resolution = "1920x1080"
              /\ batches[b].jobs[j].camera_id \notin DOMAIN persisted_settings

----------------------------------------------------------------------------
(* Properties of get_all_cameras *)

\* the entries get_all_cameras returned for identifier id
ResultsFor(result, id) == {i \in 1..Len(result) : result[i].id = id}

\* C11: get_all_cameras returns exactly one entry per registered device
\* whatever its probe did; the entry of a device whose probe failed has state
\* Error and the status the registry holds for it, which is present; the entry
\* of a device whose probe succeeded has state Connected and the probed status.
C11_ListReturnsEveryDevice ==
    (last.op = "get_all_cameras") =>
        /\ Len(last.result) = Cardinality(DOMAIN cameras)
        /\ \A id \in DOMAIN cameras :
              /\ Cardinality(ResultsFor(last.result, id)) = 1
              /\ \A i \in ResultsFor(last.result, id) :
                    IF last.probes[id] = None
                    THEN /\ last.result[i].connection_state = "Error"
                         /\ last.result[i].status # None
                         /\ last.result[i].status = cameras[id].info.status
                    ELSE /\ last.result[i].connection_state = "Connected"
                         /\ last.result[i].status = last.probes[id]

\* a poll of two devices: one probe failed, the other answered a status that
\* differs from the stored one
C11_Witness ==
    /\ last.op = "get_all_cameras"
    /\ Len(last.result) = 2
    /\ \E i, j \in 1..2 :
          /\ last.result[i].connection_state = "Error"
          /\ last.result[i].status # None
          /\ last.result[j].connection_state = "Connected"
          /\ last.result[j].status # cameras[last.result[j].id].info.status

\* C12: when a get_all_cameras call obtained status S for a device and the
\* probe of that device fails in the next get_all_cameras call, that call
\* returns the device with status S.
C12_FailedPollKeepsLastPolledStatus ==
    [][(last.op = "get_all_cameras" /\ last'.op = "get_all_cameras") =>
          \A id \in DOMAIN cameras :
              (last.probes[id] # None /\ last'.probes[id] = None) =>
                  \A i \in ResultsFor(last'.result, id) :
                      last'.result[i].status = last.probes[id]]_vars

----------------------------------------------------------------------------
(* Properties of the reconnection task *)

\* the delay the claim gives for attempt count n, in seconds
ClaimedDelay(n) ==
    LET m == IF n <= 5 THEN n ELSE 5
        d == 2 * (2^m)
    IN IF d <= 30 THEN d ELSE 30

\* the tasks spawned for client c
TasksOf(c) == {t \in TaskIds : tasks[t].client = c}

AttemptEnded == {"on_ok", "on_err", "on_drop"}

\* C40: the attempt counter stays within 0..MAX_RECONNECT_ATTEMPTS, and
\* from the end of an attempt or session (failed handshake, dropped
\* session, clean close) a task reaches its next attempt only through one
\* backoff sleep of at least the base delay: the arm of the match leads to
\* the first stop check or out of the loop, the sleep is entered from that
\* check only, left to the second check only, and an attempt starts from
\* the second check only.
C40_AlwaysBacksOff ==
    /\ [](\A t \in TaskIds :
             /\ 0 <= tasks[t].reconnect_attempts
             /\ tasks[t].reconnect_attempts <= MAX_RECONNECT_ATTEMPTS)
    /\ [][\A t \in TaskIds :
             /\ (tasks[t].pc \in AttemptEnded /\ tasks'[t].pc # tasks[t].pc) =>
                    tasks'[t].pc \in {"check1", "stopped"}
             /\ (tasks'[t].pc = "check1" /\ tasks[t].pc # "check1") =>
                    tasks[t].pc \in AttemptEnded
             /\ (tasks'[t].pc = "sleep" /\ tasks[t].pc # "sleep") =>
                    /\ tasks[t].pc = "check1"
                    /\ tasks'[t].delay >= WS_RECONNECT_DELAY
             /\ (tasks'[t].pc = "check2" /\ tasks[t].pc # "check2") =>
                    /\ tasks[t].pc = "sleep"
                    /\ tasks[t].delay >= WS_RECONNECT_DELAY
             /\ (tasks'[t].pc = "connect" /\ tasks[t].pc # "connect") =>
                    tasks[t].pc = "check2"]_vars

\* the server closed a session cleanly and the task sleeps the base delay
\* before it connects again
C40_Witness ==
    \E t \in TaskIds :
        /\ tasks[t].pc = "sleep"
        /\ tasks[t].reconnect_attempts = 0
        /\ tasks[t].delay = WS_RECONNECT_DELAY
        /\ clients[tasks[t].client].connected

\* C14: when a session that followed a completed handshake ends with a socket
\* error, the counter is at most 1 afterwards (reset by the handshake, then
\* incremented for the drop), however many failures preceded the handshake.
C14_HandshakeResetsCounter ==
    [][\A t \in TaskIds :
          (tasks[t].pc = "on_drop" /\ tasks'[t].pc # "on_drop") =>
              tasks'[t].reconnect_attempts <= 1]_vars

\* C15: the counter never passes 1000; a task whose counter has reached 1000
\* has left its loop with the connected flag false, and a task that has left
\* its loop takes no further step: no connection attempt, no sleep.
C15_CeilingStopsLoop ==
    /\ [](\A t \in TaskIds :
             /\ tasks[t].reconnect_attempts <= 1000
             /\ (tasks[t].reconnect_attempts = 1000) =>
                    /\ tasks[t].pc = "stopped"
                    /\ ~clients[tasks[t].client].connected)
    /\ [][\A t \in TaskIds :
             (tasks[t].pc = "stopped") => tasks'[t] = tasks[t]]_vars

\* a task gave up after 1000 failures while its camera is still registered
C15_Witness ==
    \E t \in TaskIds :
        /\ tasks[t].reconnect_attempts = 1000
        /\ tasks[t].pc = "stopped"
        /\ ReconnectId \in DOMAIN cameras

\* C16: each iteration checks the stop channel before the backoff is computed
\* and again after the sleep (a sleep is entered from the first check only and
\* left to the second check only, an attempt is started from the second check
\* only); a check that finds a stop signal leaves the loop; a task with a stop
\* signal in its channel starts no connection attempt; and, every handshake
\* and session ending, such a task eventually has left its loop.
C16_StopCheckedTwice ==
    /\ [][\A t \in TaskIds :
             /\ (tasks'[t].pc = "sleep" /\ tasks[t].pc # "sleep") =>
                    tasks[t].pc = "check1"
             /\ (tasks[t].pc = "sleep" /\ tasks'[t].pc # "sleep") =>
                    tasks'[t].pc = "check2"
             /\ (tasks'[t].pc = "connect" /\ tasks[t].pc # "connect") =>
                    (tasks[t].pc = "check2" /\ tasks[t].rx = 0)
             /\ (tasks[t].rx > 0 /\ tasks[t].pc \in {"check1", "check2"}
                    /\ tasks'[t].pc # tasks[t].pc) =>
                    tasks'[t].pc = "stopped"]_vars
    /\ ((Len(tasks) >= 1 /\ tasks[1].rx > 0)
            ~> (Len(tasks) >= 1 /\ tasks[1].pc = "stopped"))

\* the stop signal of remove_camera reached the task during its backoff sleep
C16_Witness ==
    /\ Len(tasks) >= 1
    /\ tasks[1].rx = 1
    /\ tasks[1].pc = "sleep"
    /\ tasks[1].reconnect_attempts = 2
    /\ last.op = "remove_camera"

\* C17: disconnect_websocket writes connected = false, then takes the stop
\* sender: when the client holds one, exactly one stop signal is sent, to the
\* task of that sender, and the client is left without a sender; when it holds
\* none (every call after the first, until connect_websocket is called again)
\* no signal is sent and nothing changes.
C17_DisconnectIdempotent ==
    [][/\ (last'.op = "disconnect_websocket.clear") =>
              /\ ~clients'[last'.client].connected
              /\ clients'[last'.client].ws_stop_tx = clients[last'.client].ws_stop_tx
              /\ tasks' = tasks
       /\ (last'.op = "disconnect_websocket") =>
              LET c == mgr_op.client
                  t == clients[c].ws_stop_tx
              IN /\ clients'[c].ws_stop_tx = 0
                 /\ clients'[c].connected = clients[c].connected
                 /\ last'.signalled = (t # 0)
                 /\ IF t # 0
                    THEN \A u \in TaskIds :
                            tasks'[u] = IF u = t /\ tasks[t].pc # "stopped"
                                        THEN [tasks[t] EXCEPT !.rx = tasks[t].rx + 1]
                                        ELSE tasks[u]
                    ELSE tasks' = tasks /\ clients' = clients
       /\ \A c \in 1..Len(clients) :
              (clients[c].ws_stop_tx = 0 /\ last'.op # "connect_websocket") =>
                  clients'[c].ws_stop_tx = 0]_vars

\* a second disconnect_websocket returned: it sent nothing, and the task still
\* holds the one signal of the first call
C17_Witness ==
    /\ last.op = "disconnect_websocket"
    /\ ~last.signalled
    /\ ~clients[last.client].connected
    /\ \E t \in TasksOf(last.client) : tasks[t].rx = 1

\* C18: the connected flag of a client is true exactly while its reconnection
\* task is inside a live session (handshake completed, session not ended).
C18_ConnectedOnlyWhileLive ==
    \A c \in 1..Len(clients) :
        clients[c].connected <=> (\E t \in TasksOf(c) : tasks[t].pc = "session")

\* C19: the step in which a task leaves its loop, by the ceiling or by a stop
\* signal, leaves the client's connected flag false; and whenever the loop of
\* a client has terminated the flag is false.
C19_FlagFalseOnceLoopEnded ==
    /\ [](\A c \in 1..Len(clients) :
             (TasksOf(c) # {} /\ \A t \in TasksOf(c) : tasks[t].pc = "stopped") =>
                 ~clients[c].connected)
    /\ [][\A t \in TaskIds :
             (tasks[t].pc # "stopped" /\ tasks'[t].pc = "stopped") =>
                 ~clients'[tasks[t].client].connected]_vars

\* a task was stopped by the signal of remove_camera before any failure
C19_Witness ==
    \E t \in TaskIds :
        /\ tasks[t].pc = "stopped"
        /\ tasks[t].reconnect_attempts = 0
        /\ clients[tasks[t].client].dropped
        /\ ~clients[tasks[t].client].connected

\* C20: at most one reconnection task of a client is running at any time.
C20_SingleFlight ==
    \A c \in 1..Len(clients) :
        Cardinality({t \in TasksOf(c) : tasks[t].pc # "stopped"}) <= 1

----------------------------------------------------------------------------
(* Properties of the connected flag after a disconnect *)

\* CameraClient::is_connected
is_connected(c) == clients[c].connected

\* disconnect_websocket has taken the sender of client c and returned, and
\* connect_websocket has not been called on c since
Disconnected(c) ==
    /\ ~clients[c].dropped
    /\ clients[c].ws_stop_tx = 0
    /\ TasksOf(c) # {}
    /\ mgr_op.kind # "disconnect"

\* C33: from the return of disconnect_websocket to the next
\* connect_websocket on the client, is_connected() is false.
C33_FalseAfterDisconnect ==
    \A c \in 1..Len(clients) : Disconnected(c) => ~is_connected(c)

\* C39: save_profile(name, ..) leaves every profile of the store whose name
\* is another one in the store with its settings, whether or not the store
\* could be read.
C39_SaveKeepsOtherProfiles ==
    [][last'.op = "save_profile" =>
          \A i \in 1..Len(profiles_file.profiles) :
              profiles_file.profiles[i].name # last'.name =>
                  \E j \in 1..Len(profiles_file'.profiles) :
                      profiles_file'.profiles[j] = profiles_file.profiles[i]]_vars

----------------------------------------------------------------------------
(* Properties of the tasks of clients that left the registry *)

\* the reconnection loops that run and have no stop signal waiting for them
Unsignalled == {t \in TaskIds : tasks[t].pc # "stopped" /\ tasks[t].rx = 0}

\* C34: while no registry command is in progress, the reconnection loop of
\* every client that has left the registry has ended or has a stop signal
\* waiting for it, so the loops that run unsignalled are no more than the
\* registered devices.
C34_NoTaskOutlivesEntry ==
    mgr_op.kind = "none" =>
        /\ \A t \in TaskIds :
               clients[tasks[t].client].dropped => t \notin Unsignalled
        /\ Cardinality(Unsignalled) <= Cardinality(DOMAIN cameras)

----------------------------------------------------------------------------
(* Properties of the permits *)

\* the tasks that hold a permit
Holders ==
    {<<b, i>> \in BatchIds \X (1..LoadIds) :
        /\ batches[b].st = "joining"
        /\ i \in 1..Len(batches[b].jobs)
        /\ batches[b].jobs[i].st = "running"}

\* C38: every batch command that has spawned its tasks returns, also with
\* more identifiers than permits and with another batch overlapping; the
\* permits out are those of the tasks whose request is in flight, and
\* when no batch is in flight all 10 permits are available.
C38_BatchesReturnPermitsRestored ==
    /\ [](permits + Cardinality(Holders) = MAX_CONCURRENT_OPERATIONS)
    /\ []((\A b \in BatchIds : batches[b].st = "idle")
              => permits = MAX_CONCURRENT_OPERATIONS)
    /\ \A b \in BatchIds : (batches[b].st = "joining") ~> (batches[b].st = "idle")

\* the batch of LoadIds identifiers has all 10 permits out while the
\* start_all_cameras batch is in flight with its task waiting for one
C38_Witness ==
    /\ permits = 0
    /\ batches[1].st = "joining"
    /\ Len(batches[1].jobs) > MAX_CONCURRENT_OPERATIONS
    /\ batches[2].st = "joining"
    /\ \E i \in 1..Len(batches[2].jobs) : batches[2].jobs[i].st = "waiting"

----------------------------------------------------------------------------
(* Properties of the telemetry session *)

\* the telemetry records of the text frames of a sequence of read items that
\* parse, in the order of the items
RECURSIVE ParsedOf(_)
ParsedOf(items) ==
    IF items = <<>> THEN <<>>
    ELSE LET rest == ParsedOf(Tail(items))
             item == Head(items)
         IN IF item.kind = "text" /\ IsSome(ParseTelemetry(item.text))
            THEN <<Unwrap(ParseTelemetry(item.text))>> \o rest
            ELSE rest

\* C21: in a session the callback has been invoked exactly with the records of
\* the parseable text frames read so far, in arrival order; reading a text
\* frame, parseable or not, a ping or any other data frame leaves the task in
\* its session with its failure counter and the connected flag as they were;
\* and the session is left only by reading a close frame or the end of the
\* stream (to the Ok arm) or a socket error (to the Err arm).
C21_BadFrameKeepsSession ==
    /\ [](\A t \in TaskIds : tasks[t].calls = ParsedOf(tasks[t].frames))
    /\ [][\A t \in TaskIds :
             /\ (last'.op = "ws_read" /\ last'.task = t
                    /\ last'.item.kind \in {"text", "ping", "binary"}) =>
                    /\ tasks'[t].pc = "session"
                    /\ tasks'[t].reconnect_attempts = tasks[t].reconnect_attempts
                    /\ clients' = clients
                    /\ Len(tasks'[t].calls) =
                           Len(tasks[t].calls) +
                               (IF last'.item.kind = "text"
                                     /\ IsSome(ParseTelemetry(last'.item.text))
                                THEN 1 ELSE 0)
             /\ (tasks[t].pc = "session" /\ tasks'[t].pc # "session") =>
                    /\ last'.op = "ws_read"
                    /\ last'.task = t
                    /\ \/ last'.item.kind \in {"close", "end"}
                             /\ tasks'[t].pc = "on_ok"
                       \/ last'.item.kind = "error" /\ tasks'[t].pc = "on_drop"]_vars

\* a session read text that is not JSON, then a telemetry document, and the
\* callback has been invoked once, with the record of the document
C21_Witness ==
    \E t \in TaskIds :
        /\ tasks[t].pc = "session"
        /\ Len(tasks[t].frames) = 2
        /\ tasks[t].frames[1].kind = "text"
        /\ ~tasks[t].frames[1].text.json
        /\ tasks[t].frames[2].kind = "text"
        /\ tasks[t].calls = <<Telemetry1>>

----------------------------------------------------------------------------
(* Properties of the profile store *)

\* the places of the profiles named name in a list of profiles
Named(profiles, name) == {i \in 1..Len(profiles) : profiles[i].name = name}

\* C22: the store never holds two profiles of one name, and after a
\* save_profile(name, settings) that returned Ok it holds exactly one profile
\* named name, with those settings, whatever it held under that name before.
C22_UpsertIdempotentOnName ==
    /\ [](\A name \in ProfileNames :
             Cardinality(Named(profiles_file.profiles, name)) <= 1)
    /\ [][(last'.op = "save_profile" /\ last'.ok) =>
             /\ Cardinality(Named(profiles_file'.profiles, last'.name)) = 1
             /\ \A i \in Named(profiles_file'.profiles, last'.name) :
                    profiles_file'.profiles[i].settings = last'.settings]_vars

\* a name was saved again with other settings, next to another profile
C22_Witness ==
    /\ last.op = "save_profile"
    /\ last.ok
    /\ IsSome(last.previous)
    /\ Unwrap(last.previous) # last.settings
    /\ Len(profiles_file.profiles) = 2
    /\ \E i \in 1..2 : /\ profiles_file.profiles[i].name = last.name
                       /\ profiles_file.profiles[i].settings = last.settings

----------------------------------------------------------------------------
(* Properties of the registry commands *)

\* C6: add_camera_manual whose status probe fails returns an error and leaves
\* the registry as it was from its call to its return: no entry, no client, no
\* reconnection task, and save_cameras_to_disk is not called.
C6_FailedProbeAddsNothing ==
    [][/\ (mgr_op.kind = "none" /\ mgr_op'.kind = "add") =>
              (cameras' = cameras /\ clients' = clients /\ tasks' = tasks
                  /\ disk' = disk)
       /\ (last'.op = "add_camera_manual" /\ ~last'.ok) =>
              (/\ mgr_op.kind = "add"
               /\ cameras' = cameras
               /\ clients' = clients
               /\ tasks' = tasks
               /\ disk' = disk
               /\ last'.save = "not_called")]_vars

\* a failed add next to a registered camera, with the file configured
C6_Witness ==
    /\ last.op = "add_camera_manual"
    /\ ~last.ok
    /\ DOMAIN cameras # {}
    /\ last.id \notin DOMAIN cameras
    /\ persistence_file_path

\* C7: remove_camera on an identifier that is not registered fails with the
\* not-found error, changes no entry, and does not call save_cameras_to_disk;
\* the removing path is taken for registered identifiers only.
C7_RemoveUnknownChangesNothing ==
    [][/\ (last'.op = "remove_camera" /\ mgr_op.kind = "none") =>
              (/\ last'.id \notin DOMAIN cameras
               /\ ~last'.ok
               /\ last'.error = "Camera not found: " \o last'.id
               /\ cameras' = cameras
               /\ clients' = clients
               /\ tasks' = tasks
               /\ disk' = disk
               /\ last'.save = "not_called")
       /\ (last'.op = "remove_camera.disconnect") => last'.id \in DOMAIN cameras]_vars

\* a failed removal next to a registered camera, with the file configured
C7_Witness ==
    /\ last.op = "remove_camera"
    /\ ~last.ok
    /\ DOMAIN cameras # {}
    /\ disk.exists

\* C8: remove_camera on a registered identifier takes exactly that entry out
\* and clears its client's connected flag; it then takes the client's stop
\* sender and sends the stop signal to the client's reconnection task (which
\* receives it unless it has already ended), and calls save_cameras_to_disk
\* with the remaining entries.
C8_RemoveRegistered ==
    [][/\ (last'.op = "remove_camera.disconnect") =>
              (/\ last'.id \in DOMAIN cameras
               /\ DOMAIN cameras' = DOMAIN cameras \ {last'.id}
               /\ \A k \in DOMAIN cameras' : cameras'[k] = cameras[k]
               /\ ~clients'[cameras[last'.id].client].connected
               /\ disk' = disk)
       /\ (last'.op = "remove_camera" /\ last'.ok) =>
              (/\ mgr_op.kind = "remove"
               /\ cameras' = cameras
               /\ mgr_op.id \notin DOMAIN cameras'
               /\ LET c == mgr_op.client
                      t == clients[c].ws_stop_tx
                  IN /\ t # 0
                     /\ tasks[t].client = c
                     /\ clients'[c].ws_stop_tx = 0
                     /\ \/ tasks[t].pc = "stopped"
                        \/ tasks'[t].rx = tasks[t].rx + 1
               /\ last'.save \in {"no_path", "written", "failed"}
               /\ (last'.save = "written") =>
                      (disk'.exists /\ {r.id : r \in disk'.cameras} = DOMAIN cameras')
               /\ (last'.save # "written") => disk' = disk)]_vars

\* a camera was removed while another stays; its task holds the stop signal
C8_Witness ==
    /\ last.op = "remove_camera"
    /\ last.ok
    /\ last.save = "written"
    /\ DOMAIN cameras # {}
    /\ ~clients[last.client].connected
    /\ \E t \in TaskIds : tasks[t].client = last.client /\ tasks[t].rx = 1

InfoFields == {"id", "ip", "port", "token", "status", "connection_state"}

\* C9: update_camera_alias on an absent identifier fails with not-found and
\* changes nothing; on a present one it sets that entry's alias and leaves its
\* identifier, address, token, status and client and every other entry as they
\* were.
C9_RenameChangesAliasOnly ==
    [][(last'.op = "update_camera_alias") =>
          IF last'.id \in DOMAIN cameras
          THEN /\ last'.ok
               /\ DOMAIN cameras' = DOMAIN cameras
               /\ cameras'[last'.id].info.alias = last'.alias
               /\ \A k \in DOMAIN cameras :
                     /\ cameras'[k].client = cameras[k].client
                     /\ \A f \in InfoFields : cameras'[k].info[f] = cameras[k].info[f]
                     /\ k # last'.id => cameras'[k] = cameras[k]
               /\ clients' = clients
               /\ tasks' = tasks
          ELSE /\ ~last'.ok
               /\ last'.error = "Camera not found: " \o last'.id
               /\ cameras' = cameras
               /\ clients' = clients
               /\ disk' = disk
               /\ last'.save = "not_called"]_vars

\* a camera was renamed while another camera is registered
C9_Witness ==
    /\ last.op = "update_camera_alias"
    /\ last.ok
    /\ cameras[last.id].info.alias = "Front"
    /\ \E k \in DOMAIN cameras : k # last.id /\ cameras[k].info.alias = "Cam1"

\* C29: in every state, those in which a command is suspended included, every
\* entry of the registry is stored under its own identifier, which is
\* host:port of its address, holds a status, and is bound to a client that is
\* not dropped and for which a reconnection task has been spawned; and the
\* step that adds an entry adds it with all of this in place.
C29_EntriesFullyFormed ==
    /\ [](\A k \in DOMAIN cameras :
             /\ cameras[k].info.id = k
             /\ k = cameras[k].info.ip \o ":" \o ToString(cameras[k].info.port)
             /\ cameras[k].info.status # None
             /\ cameras[k].client \in 1..Len(clients)
             /\ ~clients[cameras[k].client].dropped
             /\ TasksOf(cameras[k].client) # {})
    /\ [][\A k \in DOMAIN cameras' :
             (k \notin DOMAIN cameras \/ cameras'[k].client # cameras[k].client) =>
                 /\ last'.op = "add_camera_manual"
                 /\ last'.ok
                 /\ last'.id = k
                 /\ cameras'[k].info.status # None
                 /\ \E t \in 1..Len(tasks') :
                        /\ t \notin 1..Len(tasks)
                        /\ tasks'[t].client = cameras'[k].client
                        /\ tasks'[t].pc = "connect"]_vars

\* a removal is suspended inside disconnect_websocket while another camera is
\* registered, whose task is in a session
C29_Witness ==
    /\ mgr_op.kind = "remove"
    /\ \E k \in DOMAIN cameras :
          /\ cameras[k].info.status # None
          /\ \E t \in TasksOf(cameras[k].client) : tasks[t].pc = "session"

\* C30: while the status probe of a device that is being registered is
\* outstanding, a single-device command addressed to another, registered
\* device can start.
C30_SlowProbeBlocksNoOne ==
    \A id \in DOMAIN cameras :
        (mgr_op.kind = "add" /\ id # MakeId(mgr_op.ip, mgr_op.port)) =>
            \E request \in StreamRequests : ENABLED start_stream_begin(1, id, request)

\* the record of the file for identifier id
RecordsOf(file, id) == {r \in file.cameras : r.id = id}

\* C27: when update_stream_settings(id, s) has returned Ok and its write has
\* succeeded, the record of the file for id carries s as its stream settings.
C27_FileCarriesLastApplied ==
    [][(last'.op = "update_stream_settings" /\ last'.ok
           /\ last'.save = "written") =>
          /\ RecordsOf(disk', last'.id) # {}
          /\ \A r \in RecordsOf(disk', last'.id) :
                 r.stream_settings = Some(last'.request)]_vars

\* C35: the alias cameras.json carries for a device, as written by the last
\* rename, is the alias of the entry the load registers for that device, and
\* is still the alias of the device's record when the load has written the
\* file again.
C35_RenameSurvivesRestart ==
    [][(mgr_op.kind = "load" /\ Len(clients') > Len(clients)) =>
          LET persisted == Head(mgr_op.todo) IN
          /\ persisted.id \in DOMAIN cameras'
          /\ cameras'[persisted.id].info.alias = persisted.alias
          /\ RecordsOf(disk', persisted.id) # {}
          /\ \A r \in RecordsOf(disk', persisted.id) :
                 r.alias = persisted.alias]_vars

\* C36: when the startup load has returned, cameras.json still holds a
\* record for every device of the file whose probe failed during the load.
C36_SkippedStaysOnDisk ==
    (last.op = "set_persistence_path" /\ last.load = "loaded") =>
        \A id \in last.skipped : RecordsOf(disk, id) # {}

\* C37: while no command holds the registry exclusively, every identifier
\* with recorded settings is the identifier of a registered device.
C37_SettingsOnlyForRegistered ==
    mgr_op.kind = "none" => DOMAIN persisted_settings \subseteq DOMAIN cameras

\* host:port of an entry's address
AddressText(info) == info.ip \o ":" \o ToString(info.port)

\* the registry and per-device settings commands that save the registry
SavingOps == {"add_camera_manual", "remove_camera", "update_camera_alias",
              "start_stream", "update_camera_settings", "update_stream_settings"}

DiskNames(file) == {<<r.id, r.alias>> : r \in file.cameras}
RegistryNames(cams) == {<<k, cams[k].info.alias>> : k \in DOMAIN cams}

\* C25: when add_camera_manual, remove_camera or update_camera_alias has
\* returned Ok and its write has succeeded, the file holds one record per
\* registered device and no other, each with the identifier and alias of its
\* entry, whatever the file held before.
C25_WriteThrough ==
    [][(last'.op \in {"add_camera_manual", "remove_camera", "update_camera_alias"}
           /\ last'.ok /\ last'.save = "written") =>
          /\ disk'.exists
          /\ DiskNames(disk') = RegistryNames(cameras')
          /\ Cardinality(disk'.cameras) = Cardinality(DOMAIN cameras')]_vars

\* a removal has been written: the file holds the one device that is still
\* registered, under the alias it was renamed to
C25_Witness ==
    /\ last.op = "remove_camera"
    /\ last.ok
    /\ last.save = "written"
    /\ Cardinality(DOMAIN cameras) = 1
    /\ DiskNames(disk) = RegistryNames(cameras)
    /\ \E k \in DOMAIN cameras : cameras[k].info.alias = "Front"

\* C26: when the startup load has gone through the file it returns Ok and has
\* registered exactly the persisted devices whose probe answered, each under
\* host:port of its record, whichever devices failed their probe; a failed
\* probe leaves the load running or, for the last record, lets it return Ok;
\* and with no file the call returns Ok, registers nothing and writes nothing.
C26_LoadSkipsUnreachable ==
    [][/\ (last'.op = "set_persistence_path" /\ last'.load = "loaded") =>
              /\ last'.ok
              /\ DOMAIN cameras' =
                    last'.before \cup (last'.persisted \ last'.skipped)
              /\ \A k \in DOMAIN cameras' : k = AddressText(cameras'[k].info)
       /\ (mgr_op.kind = "load" /\ cameras' = cameras) =>
              \/ mgr_op'.kind = "load" /\ mgr_op'.todo = Tail(mgr_op.todo)
              \/ mgr_op'.kind = "none" /\ last'.op = "set_persistence_path"
                    /\ last'.ok
       /\ (last'.op = "set_persistence_path" /\ last'.load = "no_file") =>
              /\ last'.ok
              /\ ~disk.exists
              /\ cameras' = cameras
              /\ disk' = disk]_vars

\* a load of two persisted devices has returned: one failed its probe, the
\* other is registered
C26_Witness ==
    /\ last.op = "set_persistence_path"
    /\ last.load = "loaded"
    /\ last.before = {}
    /\ Cardinality(last.persisted) = 2
    /\ Cardinality(last.skipped) = 1
    /\ DOMAIN cameras = last.persisted \ last.skipped
    /\ Cardinality(DOMAIN cameras) = 1

\* C10: every entry is stored under its own identifier, which is host:port of
\* its address, so no two entries share an identifier or an address; a
\* successful add of an address that is already registered returns that same
\* identifier and leaves the registry with the same identifiers, and a
\* successful add of any other address adds one entry.
C10_IdentifiersUnique ==
    /\ [](\A k \in DOMAIN cameras :
             /\ cameras[k].info.id = k
             /\ k = AddressText(cameras[k].info))
    /\ [][(last'.op = "add_camera_manual" /\ last'.ok) =>
             /\ last'.id \in DOMAIN cameras'
             /\ cameras'[last'.id].info.ip = mgr_op.ip
             /\ cameras'[last'.id].info.port = mgr_op.port
             /\ IF \E k \in DOMAIN cameras :
                      /\ cameras[k].info.ip = mgr_op.ip
                      /\ cameras[k].info.port = mgr_op.port
                THEN /\ last'.id \in DOMAIN cameras
                     /\ DOMAIN cameras' = DOMAIN cameras
                ELSE Cardinality(DOMAIN cameras') = Cardinality(DOMAIN cameras) + 1]_vars

\* a registered address was added again: one entry, the first client dropped
C10_Witness ==
    /\ last.op = "add_camera_manual"
    /\ last.ok
    /\ Cardinality(DOMAIN cameras) = 1
    /\ Len(clients) = 2
    /\ clients[1].dropped
    /\ tasks[1].rx = 0
    /\ cameras[last.id].client = 2

====
